---------------------------- MODULE Spec2Model ----------------------------
(***************************************************************************)
(* Model of the vector-crm workflow engine:                                *)
(*   src/trigger/src/jobs/workflow-runner.ts (processEvent, runAutomation, *)
(*   evaluateCondition, getNestedValue) over the store helpers of          *)
(*   src/trigger/src/lib/supabase.ts.                                      *)
(*                                                                         *)
(* The tables the engine writes (workflow_events.processed_at,             *)
(* workflow_runs, workflow_run_steps) are variables.  The tables it only   *)
(* reads (automations, workflow_steps) belong to the automation builder:   *)
(* their content is an input drawn when the query is made.  Every store    *)
(* helper that tests `error` and throws has an accepting and a rejecting   *)
(* action.                                                                 *)
(***************************************************************************)
EXTENDS Integers, Sequences, FiniteSets, TLC

\* ------------------------------------------------------------------ bounds
MaxSteps == 2        \* rows of workflow_steps per automation

\* ------------------------------------------------------- program constants
MaxAttempts == 3     \* processEvent retry: { maxAttempts: 3 }

\* ------------------------------------------------------------ value domains
NULL == "NULL"                 \* SQL NULL / a column that is not set
Undefined == "undefined"       \* JS undefined; String(undefined) = "undefined"

Orgs == {"org1", "org2"}
EventOrg == "org1"             \* the tenant whose events are ingested
EventSlug == "vector"          \* orgSlug sent along with the event
EventEntity == "e7"            \* entityId sent along with the event

\* triggerTypeMap of processEvent
triggerTypeMap ==
  [et \in {"lead.created", "pipeline.stage_changed", "quote.viewed", "quote.sent",
           "quote.signed", "sms.inbound", "project.status_changed",
           "project.created", "email.received"} |->
     CASE et = "lead.created" -> "contact_created"
       [] et = "pipeline.stage_changed" -> "pipeline_stage_change"
       [] et = "quote.viewed" -> "quote_viewed"
       [] et = "quote.sent" -> "quote_sent"
       [] et = "quote.signed" -> "quote_signed"
       [] et = "sms.inbound" -> "sms_received"
       [] et = "project.status_changed" -> "project_status_change"
       [] et = "project.created" -> "project_created"
       [] OTHER -> "email_received"]

\* event types the ingestion endpoint is called with: one of the table, one not
EventTypes == {"lead.created", "custom.ping"}
TriggerTypes == {"contact_created", "custom.ping"}

\* event payloads: free-form key/value mappings
EmptyPayload == [k \in {} |-> ""]
Payloads ==
  { EmptyPayload,
    [triggerValue |-> "won"],
    [triggerValue |-> "lost"],
    [orgId |-> "org2", orgSlug |-> "bmg", entityId |-> "e9", body |-> "STOP"] }

\* const triggerType = triggerTypeMap[eventType] || eventType
TriggerTypeOf(eventType) ==
  IF eventType \in DOMAIN triggerTypeMap THEN triggerTypeMap[eventType] ELSE eventType

\* const triggerValue = (payload.triggerValue as string) || undefined
TriggerValueOf(payload) ==
  IF "triggerValue" \in DOMAIN payload /\ payload["triggerValue"] # ""
  THEN payload["triggerValue"] ELSE Undefined

\* --------------------------------------------------- the automations table
AutomationIds == {1, 2}
AutomationRows(id) ==
  [id : {id}, org_id : Orgs, status : {"draft", "published"},
   triggerType : TriggerTypes, triggerValue : {NULL, "won"}]
\* a content of the automations table: one row per id
AutomationTables ==
  { {r1, r2} : r1 \in AutomationRows(1), r2 \in AutomationRows(2) }
\* the contents with a single automation
OneRowTables == { {r} : r \in AutomationRows(1) }

\* the rows of a set as a sequence in ascending id (the order the store returns)
RECURSIVE SortById(_)
SortById(rows) ==
  IF rows = {} THEN <<>>
  ELSE LET m == CHOOSE r \in rows : \A q \in rows : r.id <= q.id
       IN <<m>> \o SortById(rows \ {m})

\* (mutant) the query without .eq("status", "published")
loadMatchingAutomations_AnyStatus(tbl, orgId, triggerType, triggerValue) ==
  SortById({ a \in tbl : /\ a.org_id = orgId
                         /\ a.triggerType = triggerType
                         /\ (triggerValue # Undefined => a.triggerValue = triggerValue) })

\* loadMatchingAutomations(orgId, triggerType, triggerValue) on a table content
loadMatchingAutomations(tbl, orgId, triggerType, triggerValue) ==
  SortById({ a \in tbl : /\ a.org_id = orgId
                         /\ a.status = "published"
                         /\ a.triggerType = triggerType
                         /\ (triggerValue # Undefined => a.triggerValue = triggerValue) })

\* ---------------------------------------------------------------- JS values
\* a value of the program: its type tag and, by type, its text, its number or
\* its own properties
NoProps == [k \in {} |-> ""]
JsUndef == [t |-> "undefined", s |-> "", n |-> 0, o |-> NoProps]
JsNull == [t |-> "null", s |-> "", n |-> 0, o |-> NoProps]
JsStr(text) == [t |-> "string", s |-> text, n |-> 0, o |-> NoProps]
JsNum(num) == [t |-> "number", s |-> "", n |-> num, o |-> NoProps]
JsObj(props) == [t |-> "object", s |-> "", n |-> 0, o |-> props]
\* a native function, by its name
JsFn(name) == [t |-> "function", s |-> name, n |-> 0, o |-> NoProps]

\* the numbers whose decimal form the model reads back from a string
NumRange == -20 .. 20
Digit(d) == CASE d = 0 -> "0" [] d = 1 -> "1" [] d = 2 -> "2" [] d = 3 -> "3"
              [] d = 4 -> "4" [] d = 5 -> "5" [] d = 6 -> "6" [] d = 7 -> "7"
              [] d = 8 -> "8" [] OTHER -> "9"
\* String(n) of an integer
RECURSIVE NumStr(_)
NumStr(num) ==
  IF num < 0 THEN "-" \o NumStr(0 - num)
  ELSE IF num < 10 THEN Digit(num)
  ELSE NumStr(num \div 10) \o Digit(num % 10)

\* String(v)
String(v) ==
  CASE v.t = "string" -> v.s
    [] v.t = "number" -> NumStr(v.n)
    [] v.t = "undefined" -> "undefined"
    [] v.t = "null" -> "null"
    [] v.t = "object" -> "[object Object]"
    [] OTHER -> "function " \o v.s \o "() { [native code] }"

\* Number(v): [nan |-> TRUE] when the value is not a number
NaN == [nan |-> TRUE, n |-> 0]
Num(num) == [nan |-> FALSE, n |-> num]
ToNumber(v) ==
  CASE v.t = "number" -> Num(v.n)
    [] v.t = "null" -> Num(0)
    [] v.t = "string" ->
         IF v.s = "" THEN Num(0)
         ELSE IF \E k \in NumRange : NumStr(k) = v.s
         THEN Num(CHOOSE k \in NumRange : NumStr(k) = v.s)
         ELSE NaN
    [] OTHER -> NaN

\* (mutant) only undefined and null are not truthy
Truthy_NotNullish(v) == v.t \notin {"undefined", "null"}

\* !!v
Truthy(v) ==
  CASE v.t = "string" -> v.s # ""
    [] v.t = "number" -> v.n # 0
    [] v.t \in {"undefined", "null"} -> FALSE
    [] OTHER -> TRUE

\* the members every object literal inherits from Object.prototype
ObjectPrototypeKeys ==
  {"constructor", "toString", "valueOf", "hasOwnProperty", "__proto__"}

\* ------------------------------------------------ the workflow_steps table
StepOrders == 0 .. MaxSteps          \* stepOrder: an integer, unique in an automation
\* a step's config: a key that is not set reads as falsy ("" / 0 / FALSE / the
\* empty template), which is what every `config.x || default` of the code sees
NoConfig ==
  [field |-> "", operator |-> "", value |-> JsUndef, stopOnFalse |-> FALSE,
   to |-> <<>>, body |-> <<>>, url |-> "", table |-> "",
   subject |-> <<>>, title |-> <<>>, description |-> <<>>, dueInDays |-> JsUndef,
   delayMinutes |-> 0, delay_minutes |-> 0, delayHours |-> 0, delay_hours |-> 0,
   delayDays |-> 0, delay_days |-> 0]
CondConfigs ==
  { [NoConfig EXCEPT !.field = "triggerValue", !.operator = "equals",
                     !.value = JsStr("won"), !.stopOnFalse = b] : b \in BOOLEAN }
HookConfig == [NoConfig EXCEPT !.url = "https://hook.example/in"]
StepShapes ==
  [stepType : {"Trigger"}, actionType : {""}, config : {NoConfig}]
  \cup [stepType : {"Action"}, actionType : {"webhook"}, config : {HookConfig}]
  \cup [stepType : {"Condition"}, actionType : {""}, config : CondConfigs]

\* the primary key of the row holding stepOrder o (keys do not follow stepOrder)
StepIdOf(o) == 10 - o
StepRow(o, shape) ==
  [id |-> StepIdOf(o), stepOrder |-> o, stepType |-> shape.stepType,
   actionType |-> shape.actionType, config |-> shape.config]
\* a content of workflow_steps for one automation: at most MaxSteps rows
StepTables ==
  UNION { { { StepRow(o, f[o]) : o \in O } : f \in [O -> StepShapes] } :
          O \in { X \in SUBSET StepOrders : Cardinality(X) <= MaxSteps } }

\* the contents with no step, or with one Action step
ShortStepTables ==
  { {}, { StepRow(1, [stepType |-> "Action", actionType |-> "webhook",
                      config |-> HookConfig]) } }

\* .order("stepOrder", { ascending: true })
RECURSIVE SortByStepOrder(_)
SortByStepOrder(rows) ==
  IF rows = {} THEN <<>>
  ELSE LET m == CHOOSE r \in rows : \A q \in rows : r.stepOrder <= q.stepOrder
       IN <<m>> \o SortByStepOrder(rows \ {m})

\* loadWorkflowSteps(automationId) on the automation's rows
loadWorkflowSteps(rows) == SortByStepOrder(rows)

\* step_order: step.stepOrder || step.step_order  (rows carry no step_order
\* column, so a falsy stepOrder leaves the logged value unset)
LoggedStepOrder(step) == IF step.stepOrder # 0 THEN <<step.stepOrder>> ELSE <<>>

\* ---------------------------------------------------------------- context
ReservedKeys == {"orgId", "orgSlug", "entityId"}
\* const context = { orgId, orgSlug, entityId, ...payload }
BuildContext(orgId, orgSlug, entityId, payload) ==
  LET base == [orgId |-> orgId, orgSlug |-> orgSlug, entityId |-> entityId]
  IN [k \in ReservedKeys \cup DOMAIN payload |->
        JsStr(IF k \in DOMAIN payload THEN payload[k] ELSE base[k])]

\* the keys property paths are made of, and the paths of at most three keys
PathKeyNames ==
  {"", "a", "b", "c", "count", "missing", "body", "from", "triggerValue",
   "orgId", "orgSlug", "entityId", "constructor", "toString"}
JoinPath(keys) ==
  IF Len(keys) = 1 THEN keys[1]
  ELSE IF Len(keys) = 2 THEN keys[1] \o "." \o keys[2]
  ELSE keys[1] \o "." \o keys[2] \o "." \o keys[3]
KeySeqs ==
  { <<k>> : k \in PathKeyNames }
  \cup { <<"a", k>> : k \in {"b", "missing", "constructor"} }
  \cup { <<"missing", "b">>, <<"body", "a">>, <<"a", "b", "c">> }
\* path.split("."): the keys whose joining gives the path (a path outside the
\* model's keys is one key)
SplitPath(path) ==
  IF \E ks \in KeySeqs : JoinPath(ks) = path
  THEN CHOOSE ks \in KeySeqs : JoinPath(ks) = path
  ELSE <<path>>

\* obj[key] for a key obj inherits from Object.prototype
Inherited(key) ==
  CASE key = "constructor" -> JsFn("Object")
    [] key = "__proto__" -> JsObj(NoProps)
    [] OTHER -> JsFn(key)

\* the callback of getNestedValue's reduce: `key in acc` also finds the
\* members acc inherits
NestedStep(acc, key) ==
  IF acc.t = "object" /\ key \in DOMAIN acc.o THEN acc.o[key]
  ELSE IF acc.t = "object" /\ key \in ObjectPrototypeKeys THEN Inherited(key)
  ELSE JsUndef
RECURSIVE NestedReduce(_, _)
NestedReduce(acc, keys) ==
  IF keys = <<>> THEN acc ELSE NestedReduce(NestedStep(acc, Head(keys)), Tail(keys))
\* getNestedValue(obj, path)
getNestedValue(obj, path) == NestedReduce(JsObj(obj), SplitPath(path))

\* the characters of the strings conditions compare; any other string is
\* one opaque symbol
Chars(str) ==
  CASE str = "" -> <<>>
    [] str = "STOP" -> <<"S", "T", "O", "P">>
    [] str = "NONSTOP" -> <<"N", "O", "N", "S", "T", "O", "P">>
    [] str = "hello" -> <<"h", "e", "l", "l", "o">>
    [] str = "undefined" -> <<"u", "n", "d", "e", "f", "i", "n", "e", "d">>
    [] str = "null" -> <<"n", "u", "l", "l">>
    [] str = "ell" -> <<"e", "l", "l">>
    [] str = "abc" -> <<"a", "b", "c">>
    [] str = "10" -> <<"1", "0">>
    [] str = "-3" -> <<"-", "3">>
    [] OTHER -> <<str>>
\* String(actual).includes(String(value))
Includes(actual, value) ==
  LET h == Chars(actual)
      n == Chars(value)
  IN \E i \in 0 .. Len(h) : i + Len(n) <= Len(h) /\ SubSeq(h, i + 1, i + Len(n)) = n

\* evaluateCondition(config, context)
evaluateCondition(config, context) ==
  LET actual == getNestedValue(context, config.field)
      value == config.value
  IN CASE config.operator \in {"equals", ""} -> String(actual) = String(value)
       [] config.operator = "not_equals" -> String(actual) # String(value)
       [] config.operator = "contains" -> Includes(String(actual), String(value))
       [] config.operator = "not_contains" ->
            ~Includes(String(actual), String(value))
       [] config.operator = "greater_than" ->
            /\ ~ToNumber(actual).nan /\ ~ToNumber(value).nan
            /\ ToNumber(actual).n > ToNumber(value).n
       [] config.operator = "less_than" ->
            /\ ~ToNumber(actual).nan /\ ~ToNumber(value).nan
            /\ ToNumber(actual).n < ToNumber(value).n
       [] config.operator = "is_empty" -> ~Truthy(actual)
       [] config.operator = "is_not_empty" -> Truthy(actual)
       [] OTHER -> FALSE

\* if (!passed && config.stopOnFalse) { shouldContinue = false; ... }
StopsRun(passed, config) == ~passed /\ config.stopOnFalse

\* action types whose transport can raise (fetch, Twilio, the store)
ThrowingActions == {"send_sms", "send_email", "create_task", "update_field", "webhook"}
ActionError == "transport error"
LogError == "logStepExecution failed"

\* a template is a sequence of parts: literal text, or a {{path}} placeholder
Lit(text) == [lit |-> text, path |-> ""]
Ph(path) == [lit |-> "", path |-> path]
\* (mutant) a placeholder that does not resolve is left in the text
RECURSIVE interpolate_KeepUnresolved(_, _)
interpolate_KeepUnresolved(template, context) ==
  IF template = <<>> THEN ""
  ELSE LET part == Head(template)
           val == getNestedValue(context, part.path)
           text == IF part.path = "" THEN part.lit
                   ELSE IF val.t \notin {"undefined", "null"} THEN String(val)
                   ELSE "{{" \o part.path \o "}}"
       IN text \o interpolate_KeepUnresolved(Tail(template), context)

\* interpolate(template, context): every placeholder is replaced by the string
\* form of the context value, or by "" when it is undefined
RECURSIVE interpolate(_, _)
interpolate(template, context) ==
  IF template = <<>> THEN ""
  ELSE LET part == Head(template)
           val == getNestedValue(context, part.path)
           text == IF part.path = "" THEN part.lit
                   ELSE IF val.t \notin {"undefined", "null"} THEN String(val)
                   ELSE ""
       IN text \o interpolate(Tail(template), context)

\* (mutant) hours counted as minutes
TotalSeconds_HoursAsMinutes(config) ==
  LET delayMinutes == IF config.delayMinutes # 0 THEN config.delayMinutes
                      ELSE config.delay_minutes
      delayHours == IF config.delayHours # 0 THEN config.delayHours ELSE config.delay_hours
      delayDays == IF config.delayDays # 0 THEN config.delayDays ELSE config.delay_days
  IN delayMinutes * 60 + delayHours * 60 + delayDays * 86400

\* executeWaitStep: Number(config.delayMinutes || config.delay_minutes || 0) ...
\* totalSeconds = delayMinutes * 60 + delayHours * 3600 + delayDays * 86400
TotalSeconds(config) ==
  LET delayMinutes == IF config.delayMinutes # 0 THEN config.delayMinutes
                      ELSE config.delay_minutes
      delayHours == IF config.delayHours # 0 THEN config.delayHours ELSE config.delay_hours
      delayDays == IF config.delayDays # 0 THEN config.delayDays ELSE config.delay_days
  IN delayMinutes * 60 + delayHours * 3600 + delayDays * 86400

\* ORG_MESSAGING_SERVICES of a deployment where only TWILIO_MS_VECTOR is set
ORG_MESSAGING_SERVICES == [vector |-> "MG-vector", bmg |-> "", stucco |-> ""]
\* ORG_MESSAGING_SERVICES[orgSlug]: the configured SID, an inherited member
\* (a truthy function or object), or undefined
MessagingServiceLookup(orgSlug) ==
  IF orgSlug \in DOMAIN ORG_MESSAGING_SERVICES THEN ORG_MESSAGING_SERVICES[orgSlug]
  ELSE IF orgSlug \in ObjectPrototypeKeys THEN "[inherited member]"
  ELSE ""
NoIdentityError == "No Messaging Service SID configured for org"
TwilioError == "Twilio send failed"

\* the side effects of executing one step
NoFx == [lookup |-> FALSE, sms |-> <<>>, message |-> <<>>, wait |-> 0,
         fetch |-> <<>>, task |-> <<>>, update |-> <<>>]

\* the outcomes of executing one step (the switch on stepType of runAutomation):
\* a result, an error raised by the dispatcher, or a suspension of the run
SkipResult == [tag |-> "skipped", conditionPassed |-> FALSE, stopped |-> FALSE,
               waited |-> FALSE, seconds |-> 0, status |-> 0]
Returns(r) == [kind |-> "result", result |-> r, error |-> "", fx |-> NoFx]
Throws(msg) == [kind |-> "throw", result |-> SkipResult, error |-> msg, fx |-> NoFx]
WithFx(out, fx) == [out EXCEPT !.fx = fx]

\* executeWaitStep(config)
executeWaitStep(config) ==
  LET totalSeconds == TotalSeconds(config) IN
    IF totalSeconds > 0
    THEN { [kind |-> "suspend",
            result |-> [SkipResult EXCEPT !.tag = "wait", !.waited = TRUE,
                                          !.seconds = totalSeconds],
            error |-> "", fx |-> [NoFx EXCEPT !.wait = totalSeconds]] }
    ELSE { Returns([SkipResult EXCEPT !.tag = "wait"]) }

\* executeActionStep, case "send_sms" (lines 282-308)
send_sms(config, context, orgSlug) ==
  LET to == interpolate(config.to, context)
      body == interpolate(config.body, context)
      msSid == MessagingServiceLookup(orgSlug)
      call == [messagingServiceSid |-> msSid, to |-> to, body |-> body]
      row == [org_id |-> context["orgId"], direction |-> "outbound",
              to_number |-> to, body |-> body, status |-> "queued"]
  IN IF to = "" \/ body = "" THEN { Returns(SkipResult) }
     ELSE IF msSid = ""
     THEN { WithFx(Throws(NoIdentityError), [NoFx EXCEPT !.lookup = TRUE]) }
     ELSE { WithFx(Throws(TwilioError), [NoFx EXCEPT !.lookup = TRUE, !.sms = <<call>>]),
            WithFx(Returns([SkipResult EXCEPT !.tag = "sent"]),
                   [NoFx EXCEPT !.lookup = TRUE, !.sms = <<call>>,
                                !.message = <<row>>]),
            \* the store rejects the insert into messages: the error the
            \* client returns is not looked at
            WithFx(Returns([SkipResult EXCEPT !.tag = "sent"]),
                   [NoFx EXCEPT !.lookup = TRUE, !.sms = <<call>>]) }

\* the answers of a remote HTTP endpoint, and the error fetch raises when
\* there is no answer
HttpStatuses == {200, 404, 500}
NoAnswer == 0
\* (mutant) any answer counts as a success
RespOk_AnyAnswer(status) == TRUE
\* resp.ok
RespOk(status) == status >= 200 /\ status <= 299
FetchError == "fetch failed"
SendEmailError == "send-email failed"
SendEmailUrl == "https://vector-crm.vercel.app/api/send-email"

\* executeActionStep, case "send_email" (lines 310-333)
send_email(config, context) ==
  LET to == interpolate(config.to, context)
      subject == interpolate(config.subject, context)
      body == interpolate(config.body, context)
      call(answer) ==
        [url |-> SendEmailUrl, answer |-> answer,
         body |-> [k \in {"to", "subject", "body"} |->
                     JsStr(CASE k = "to" -> to [] k = "subject" -> subject
                             [] OTHER -> body)]]
      fx(answer) == [NoFx EXCEPT !.fetch = <<call(answer)>>]
  IN IF to = "" \/ subject = "" \/ body = "" THEN { Returns(SkipResult) }
     ELSE { WithFx(Throws(FetchError), fx(NoAnswer)) }
          \cup { WithFx(IF RespOk(status)
                        THEN Returns([SkipResult EXCEPT !.tag = "sent"])
                        ELSE Throws(SendEmailError), fx(status)) :
                 status \in HttpStatuses }

\* const dueInDays = Number(config.dueInDays || 1)
DueInDays(config) ==
  IF Truthy(config.dueInDays) THEN ToNumber(config.dueInDays) ELSE Num(1)
SecondsPerDay == 86400
\* the calendar day of an instant
DayOf(now) == now \div SecondsPerDay
CreateTaskError == "create_task failed"
InvalidDateError == "Invalid time value"

\* executeActionStep, case "create_task" (lines 335-360)
create_task(config, context, now) ==
  LET title == interpolate(IF config.title = <<>> THEN <<Lit("Follow up")>>
                           ELSE config.title, context)
      description == interpolate(config.description, context)
      dueInDays == DueInDays(config)
      row == [org_id |-> context["orgId"], title |-> title,
              description |-> description,
              due_date |-> DayOf(now) + dueInDays.n, status |-> "pending",
              entity_type |-> IF "entityType" \in DOMAIN context
                                 /\ Truthy(context["entityType"])
                              THEN context["entityType"] ELSE JsNull,
              entity_id |-> IF Truthy(context["entityId"])
                            THEN JsStr(String(context["entityId"])) ELSE JsNull]
  IN IF dueInDays.nan THEN { Throws(InvalidDateError) }
     ELSE { WithFx(Returns([SkipResult EXCEPT !.tag = "created"]),
                   [NoFx EXCEPT !.task = <<row>>]),
            Throws(CreateTaskError) }

UpdateFieldError == "update_field failed"

\* executeActionStep, case "update_field" (lines 362-380): the update request
\* sb.from(table).update({ [field]: value }).eq("id", entityId)
update_field(config, context) ==
  LET entityId == context["entityId"]
      call == [table |-> config.table, field |-> config.field,
               value |-> config.value, id |-> entityId]
  IN IF config.table = "" \/ config.field = "" \/ ~Truthy(entityId)
     THEN { Returns(SkipResult) }
     ELSE { WithFx(Returns([SkipResult EXCEPT !.tag = "updated"]),
                   [NoFx EXCEPT !.update = <<call>>]),
            Throws(UpdateFieldError) }

\* executeActionStep, case "webhook" (lines 382-393)
webhook(config, context) ==
  LET call(answer) == [url |-> config.url, answer |-> answer, body |-> context]
      fx(answer) == [NoFx EXCEPT !.fetch = <<call(answer)>>]
  IN IF config.url = "" THEN { Returns(SkipResult) }
     ELSE { WithFx(Throws(FetchError), fx(NoAnswer)) }
          \cup { WithFx(Returns([SkipResult EXCEPT !.tag = "sent", !.status = status]),
                        fx(status)) : status \in HttpStatuses }

ExecOutcomes(step, context, orgSlug, now) ==
  CASE step.stepType = "Trigger" -> { Returns(SkipResult) }
    [] step.stepType = "Wait" -> executeWaitStep(step.config)
    [] step.stepType = "Action" ->
         CASE step.actionType = "send_sms" -> send_sms(step.config, context, orgSlug)
           [] step.actionType = "send_email" -> send_email(step.config, context)
           [] step.actionType = "create_task" -> create_task(step.config, context, now)
           [] step.actionType = "update_field" -> update_field(step.config, context)
           [] step.actionType = "webhook" -> webhook(step.config, context)
           [] step.actionType \in ThrowingActions ->
                { Returns([SkipResult EXCEPT !.tag = "action"]), Throws(ActionError) }
           [] OTHER -> { Returns(SkipResult) }
    [] step.stepType = "Condition" ->
         LET passed == evaluateCondition(step.config, context)
         IN { Returns([SkipResult EXCEPT !.tag = "condition",
                                         !.conditionPassed = passed,
                                         !.stopped = StopsRun(passed, step.config)]) }
    [] OTHER -> { Returns(SkipResult) }

\* ------------------------------------------------------------------- state
VARIABLES
  events,    \* workflow_events: rows [org_id, event_type, entity_id, payload,
             \*   processed_at (the number of times processed_at was written)]
  runs,      \* workflow_runs: rows [org_id, automation_id, event_id, status, error]
  stepLog,   \* workflow_run_steps: rows in insertion order
  pe,        \* the process-crm-event task of each event
  ra,        \* the run-automation task the event's router is waiting for
  hist,      \* per run, what the task did (read by the properties only)
  outbox,    \* the calls of sendSms, in order: what was handed to the SMS transport
  messages,  \* the messages table: rows in insertion order
  clock,     \* the time of the durable scheduler, in seconds
  fetches,   \* the HTTP requests of the actions, in order: [url, body], and
             \*   the status each was answered with (0: no answer)
  tasks,     \* the tasks table: rows in insertion order
  api,       \* the handler of POST /api/trigger-event and its response
  probe,     \* the pure functions: the arguments of a call and its value
  share,     \* quote_share_links (rows [quote_id, revoked]) and the handlers
             \*   of POST /api/quote-share that are creating a link
  sync       \* syncOpportunities: its position, its locals and its count

vars == <<events, runs, stepLog, pe, ra, hist, outbox, messages, clock,
          fetches, tasks, api, probe,
                 share, sync>>

\* the events ingested in one behaviour: at most MaxEvents, each routed by its
\* own process-crm-event task
MaxEvents == 2
EventIds == 1 .. MaxEvents
NoStep == [id |-> 0, stepOrder |-> 0, stepType |-> "", actionType |-> "",
           config |-> NoConfig]
IdlePe == [pc |-> "idle", attempt |-> 0, orgSlug |-> "", automations |-> <<>>,
           i |-> 0, results |-> <<>>, invoked |-> <<>>]
IdleRa == [pc |-> "off", automationId |-> 0, runId |-> 0, steps |-> <<>>,
           step |-> NoStep, shouldContinue |-> TRUE, stepsExecuted |-> 0,
           context |-> EmptyPayload, result |-> SkipResult, errMsg |-> "",
           wakeAt |-> 0]
\* started: the ids of the steps executed, in order; steps: their rows;
\* startedAt: the clock at
\* each start; results: what each execution produced; loaded: the number of
\* steps loaded (-1 before the load) and plan the steps themselves; suspended: the Wait steps that
\* suspended the run, as [step, at, seconds]; lookups / sms / msgs: the
\* messaging identity lookups, sendSms calls and message rows of the run;
\* fetches / tasks: its HTTP requests and the task rows it inserted
NewHist == [started |-> <<>>, raised |-> 0, raisedMsg |-> "", stopped |-> 0,
            rejected |-> {}, terminalWrites |-> 0, ended |-> FALSE,
            steps |-> <<>>, startedAt |-> <<>>, results |-> <<>>, loaded |-> -1,
            plan |-> <<>>,
            suspended |-> <<>>, lookups |-> 0, sms |-> 0, msgs |-> 0,
            fetches |-> <<>>, tasks |-> <<>>]

\* the handler of /api/trigger-event before a request: status is the HTTP
\* status of the response (0: none yet), eventId the identifier it returns
NoRequest == [method |-> "", orgId |-> "", eventType |-> "", entityType |-> "",
              payload |-> EmptyPayload, orgSlug |-> ""]
IdleApi == [pc |-> "idle", req |-> NoRequest, serviceKey |-> FALSE,
            triggerApiKey |-> FALSE, status |-> 0, eventId |-> 0,
            triggered |-> FALSE, trigger |-> ""]
\* no call of a pure function: fn is the function called, then come its
\* arguments, whether it has returned, and its value by type (bool, text,
\* value); again is the text of a second pass of interpolate over text
NoProbe == [fn |-> "", config |-> NoConfig, context |-> NoProps, template |-> "",
            path |-> "", done |-> FALSE, bool |-> FALSE, text |-> "", again |-> "",
            value |-> JsUndef]

\* the handlers of POST /api/quote-share: at most two requests are served at
\* the same time
Handlers == {1, 2}
IdleHandler == [pc |-> "idle", quoteId |-> 0, status |-> 0]
IdleShare == [links |-> <<>>, h |-> [i \in Handlers |-> IdleHandler], requests |-> 0]
\* syncOpportunities not called: content is what the remote endpoints hold (per
\* pipeline, the number of opportunities its endpoint returns), todo the
\* pipelines still to sync, attempt the attempt of ghlFetch under way
IdleSync == [pc |-> "idle", content |-> <<>>, todo |-> <<>>, page |-> 0,
             hasMore |-> FALSE, attempt |-> 0, count |-> 0, fetches |-> 0]

\* nothing ingested, no request
Quiet ==
  /\ events = <<>>
  /\ runs = <<>>
  /\ stepLog = <<>>
  /\ pe = [e \in EventIds |-> IdlePe]
  /\ ra = [e \in EventIds |-> IdleRa]
  /\ hist = <<>>
  /\ outbox = <<>>
  /\ messages = <<>>
  /\ clock = 0
  /\ fetches = <<>>
  /\ tasks = <<>>
  /\ api = IdleApi
  /\ share = IdleShare
  /\ sync = IdleSync

Init == Quiet /\ probe = NoProbe

\* ------------------------------------------------ ingestion (trigger-event)
\* The endpoint inserts the event row and triggers process-crm-event with it.
EmitEvent(eventType, payload, orgSlug) ==
  /\ Len(events) < Cardinality(EventIds)
  /\ LET e == Len(events) + 1 IN
       /\ events' = Append(events, [org_id |-> EventOrg, event_type |-> eventType,
                                    entity_id |-> EventEntity, payload |-> payload,
                                    processed_at |-> 0])
       /\ pe' = [pe EXCEPT ![e] = [IdlePe EXCEPT !.pc = "load", !.attempt = 1,
                                                 !.orgSlug = orgSlug]]
  /\ UNCHANGED <<runs, stepLog, ra, hist, outbox, messages, clock,
               fetches, tasks, api, probe,
                 share, sync>>

\* ---------------------------------------------------------- processEvent
\* where the router goes once the automations are loaded
AfterLoad(automations) == IF Len(automations) = 0 THEN "mark_none" ELSE "dispatch"

\* line 54, the query answered
PE_Load(e, tbl) ==
  /\ pe[e].pc = "load"
  /\ LET ev == events[e]
         automations == loadMatchingAutomations(tbl, ev.org_id,
                          TriggerTypeOf(ev.event_type), TriggerValueOf(ev.payload))
     IN pe' = [pe EXCEPT ![e].automations = automations,
                         ![e].i = 1,
                         ![e].pc = AfterLoad(automations)]
  /\ UNCHANGED <<events, runs, stepLog, ra, hist, outbox, messages, clock,
               fetches, tasks, api, probe,
                 share, sync>>

\* what the task executor does with an attempt that threw: retry: { maxAttempts: 3 }
AfterThrow(attempt) == IF attempt < MaxAttempts THEN "load" ELSE "failed"

\* line 54, the query rejected: loadMatchingAutomations throws, the attempt ends
PE_LoadRejected(e) ==
  /\ pe[e].pc = "load"
  /\ pe' = [pe EXCEPT ![e].pc = AfterThrow(pe[e].attempt),
                      ![e].attempt = IF pe[e].attempt < MaxAttempts
                                     THEN pe[e].attempt + 1 ELSE pe[e].attempt]
  /\ UNCHANGED <<events, runs, stepLog, ra, hist, outbox, messages, clock,
               fetches, tasks, api, probe,
                 share, sync>>

\* .update({ processed_at: ... }).eq("id", eventId)
MarkProcessed(evs, e) == [evs EXCEPT ![e].processed_at = evs[e].processed_at + 1]

\* (mutant) the early return without the processed_at write
PE_MarkNone_NoWrite(e) ==
  /\ pe[e].pc = "mark_none"
  /\ pe' = [pe EXCEPT ![e].pc = "done"]
  /\ UNCHANGED <<events, runs, stepLog, ra, hist, outbox, messages, clock,
               fetches, tasks, api, probe,
                 share, sync>>

\* lines 56-65: no automation matched
PE_MarkNone(e) ==
  /\ pe[e].pc = "mark_none"
  /\ events' = MarkProcessed(events, e)
  /\ pe' = [pe EXCEPT ![e].pc = "done"]
  /\ UNCHANGED <<runs, stepLog, ra, hist, outbox, messages, clock,
               fetches, tasks, api, probe,
                 share, sync>>

\* line 75: runAutomation.triggerAndWait for automations[i]
PE_Trigger(e) ==
  /\ pe[e].pc = "dispatch"
  /\ LET a == pe[e].automations[pe[e].i] IN
       /\ ra' = [ra EXCEPT ![e] = [IdleRa EXCEPT !.pc = "create",
                                                 !.automationId = a.id]]
       /\ pe' = [pe EXCEPT ![e].pc = "wait",
                           ![e].invoked = Append(pe[e].invoked, a.id)]
  /\ UNCHANGED <<events, runs, stepLog, hist, outbox, messages, clock,
               fetches, tasks, api, probe,
                 share, sync>>

\* (mutant) the loop left at the first failed automation
AfterOutcome_BreakOnFailure(i, n, status) ==
  IF i < n /\ status # "failed" THEN "dispatch" ELSE "mark"

\* the loop of lines 73-92 after one automation's outcome was pushed
AfterOutcome(i, n, status) == IF i < n THEN "dispatch" ELSE "mark"

\* (mutant) trigger instead of triggerAndWait: the caller goes on at once
RunTaskEnded_NoWait(pc) == TRUE

\* triggerAndWait (line 75) resolves when the child task returned or threw
RunTaskEnded(pc) == pc \in {"returned", "threw"}

\* lines 86-91: the awaited run ended; its outcome is pushed.  A run task that
\* threw is seen by the caller as an exception (the catch of line 87) or, when
\* the executor hands failures back as a result object, as a returned value.
PE_Collect(e) ==
  /\ pe[e].pc = "wait"
  /\ RunTaskEnded(ra[e].pc)
  /\ \E status \in IF ra[e].pc = "returned" THEN {"completed"}
                   ELSE {"failed", "completed"} :
       pe' = [pe EXCEPT
                ![e].results = Append(pe[e].results,
                                 [automationId |-> ra[e].automationId,
                                  status |-> status,
                                  error |-> IF status = "failed" THEN ra[e].errMsg ELSE ""]),
                ![e].pc = AfterOutcome(pe[e].i, Len(pe[e].automations), status),
                ![e].i = pe[e].i + 1]
  /\ ra' = [ra EXCEPT ![e] = IdleRa]
  /\ UNCHANGED <<events, runs, stepLog, hist, outbox, messages, clock,
               fetches, tasks, api, probe,
                 share, sync>>

\* (mutant) the final write placed inside the loop, after every outcome
PE_MarkProcessed_EachTime(e) ==
  /\ pe[e].pc \in {"mark", "dispatch"}
  /\ pe[e].i > 1
  /\ events[e].processed_at < pe[e].i - 1
  /\ events' = MarkProcessed(events, e)
  /\ pe' = [pe EXCEPT ![e].pc = IF pe[e].pc = "mark" THEN "done" ELSE "dispatch"]
  /\ UNCHANGED <<runs, stepLog, ra, hist, outbox, messages, clock,
               fetches, tasks, api, probe,
                 share, sync>>

\* (mutant) the final write throws on a store error: the attempt ends after
\* its runs were created and the executor starts the task again
PE_MarkProcessed_Throws(e) ==
  /\ pe[e].pc = "mark"
  /\ pe' = [pe EXCEPT ![e].pc = AfterThrow(pe[e].attempt),
                      ![e].attempt = IF pe[e].attempt < MaxAttempts
                                     THEN pe[e].attempt + 1 ELSE pe[e].attempt,
                      ![e].results = <<>>, ![e].invoked = <<>>]
  /\ UNCHANGED <<events, runs, stepLog, ra, hist, outbox, messages, clock,
               fetches, tasks, api, probe,
                 share, sync>>

\* lines 94-101
PE_MarkProcessed(e) ==
  /\ pe[e].pc = "mark"
  /\ events' = MarkProcessed(events, e)
  /\ pe' = [pe EXCEPT ![e].pc = "done"]
  /\ UNCHANGED <<runs, stepLog, ra, hist, outbox, messages, clock,
               fetches, tasks, api, probe,
                 share, sync>>

\* ---------------------------------------------------------- runAutomation
\* the task params of the run started for event e (lines 75-85)
RunOrgId(e) == events[e].org_id
RunEntityId(e) == events[e].entity_id
RunOrgSlug(e) == pe[e].orgSlug

\* the child task ends: it returned, or an error left it
Ended(h) == [h EXCEPT !.ended = TRUE]
Rejected(h, op) == [h EXCEPT !.rejected = h.rejected \cup {op}]

\* lines 129-134: createWorkflowRun accepted
\* (mutant) the run record is created without the 'running' status
createWorkflowRun_Pending(orgId, automationId, eventId) ==
  [org_id |-> orgId, automation_id |-> automationId, event_id |-> eventId,
   status |-> "pending", error |-> ""]

\* the row createWorkflowRun inserts
createWorkflowRun(orgId, automationId, eventId) ==
  [org_id |-> orgId, automation_id |-> automationId, event_id |-> eventId,
   status |-> "running", error |-> ""]

RA_CreateRun(e) ==
  /\ ra[e].pc = "create"
  /\ runs' = Append(runs, createWorkflowRun(RunOrgId(e), ra[e].automationId, e))
  /\ hist' = Append(hist, NewHist)
  /\ ra' = [ra EXCEPT ![e].runId = Len(runs) + 1, ![e].pc = "load_steps"]
  /\ UNCHANGED <<events, stepLog, pe, outbox, messages, clock,
               fetches, tasks, api, probe,
                 share, sync>>

\* createWorkflowRun rejected: the task throws before any record exists
RA_CreateRunRejected(e) ==
  /\ ra[e].pc = "create"
  /\ ra' = [ra EXCEPT ![e].pc = "threw", ![e].errMsg = "createWorkflowRun failed"]
  /\ UNCHANGED <<events, runs, stepLog, pe, hist, outbox, messages, clock,
               fetches, tasks, api, probe,
                 share, sync>>

\* where the run goes once its steps are loaded (line 138)
AfterLoadSteps(steps) == IF Len(steps) = 0 THEN "complete_empty" ELSE "exec"

\* lines 136-156: loadWorkflowSteps accepted, then the context is built
RA_LoadSteps(e, rows) ==
  /\ ra[e].pc = "load_steps"
  /\ LET steps == loadWorkflowSteps(rows) IN
       /\ ra' = [ra EXCEPT ![e].steps = steps,
                        ![e].pc = AfterLoadSteps(steps),
                        ![e].context = IF Len(steps) = 0 THEN EmptyPayload
                                       ELSE BuildContext(RunOrgId(e), RunOrgSlug(e),
                                              RunEntityId(e), events[e].payload)]
       /\ hist' = [hist EXCEPT ![ra[e].runId].loaded = Len(steps),
                               ![ra[e].runId].plan = steps]
  /\ UNCHANGED <<events, runs, stepLog, pe, outbox, messages, clock,
               fetches, tasks, api, probe,
                 share, sync>>

\* loadWorkflowSteps rejected: the task throws, the run record stays as created
RA_LoadStepsRejected(e) ==
  /\ ra[e].pc = "load_steps"
  /\ ra' = [ra EXCEPT ![e].pc = "threw", ![e].errMsg = "loadWorkflowSteps failed"]
  /\ hist' = [hist EXCEPT ![ra[e].runId] = Ended(Rejected(@, "load_steps"))]
  /\ UNCHANGED <<events, runs, stepLog, pe, outbox, messages, clock,
               fetches, tasks, api, probe,
                 share, sync>>

\* (mutant) an update that leaves out the status column
updateWorkflowRun_NoStatus(rs, runId, status, error) ==
  [rs EXCEPT ![runId].error = error]

\* updateWorkflowRun(runId, { status, error?, completed_at })
updateWorkflowRun(rs, runId, status, error) ==
  [rs EXCEPT ![runId].status = status, ![runId].error = error]
Terminal(h) == [h EXCEPT !.terminalWrites = h.terminalWrites + 1]

\* (mutant) the zero-step branch without its return: the run is completed
\* again after the loop
RA_CompleteEmpty_NoReturn(e) ==
  /\ ra[e].pc = "complete_empty"
  /\ runs' = updateWorkflowRun(runs, ra[e].runId, "completed", "")
  /\ hist' = [hist EXCEPT ![ra[e].runId] = Terminal(@)]
  /\ ra' = [ra EXCEPT ![e].pc = "exec"]
  /\ UNCHANGED <<events, stepLog, pe, outbox, messages, clock,
               fetches, tasks, api, probe,
                 share, sync>>

\* (mutant) an automation without steps treated as an error
RA_CompleteEmpty_AsFailure(e) ==
  /\ ra[e].pc = "complete_empty"
  /\ runs' = updateWorkflowRun(runs, ra[e].runId, "failed", "no steps")
  /\ hist' = [hist EXCEPT ![ra[e].runId] = Ended(Terminal(@))]
  /\ ra' = [ra EXCEPT ![e].pc = "threw", ![e].errMsg = "no steps"]
  /\ UNCHANGED <<events, stepLog, pe, outbox, messages, clock,
               fetches, tasks, api, probe,
                 share, sync>>

\* lines 140-144: an automation without steps
RA_CompleteEmpty(e) ==
  /\ ra[e].pc = "complete_empty"
  /\ runs' = updateWorkflowRun(runs, ra[e].runId, "completed", "")
  /\ hist' = [hist EXCEPT ![ra[e].runId] = Ended(Terminal(@))]
  /\ ra' = [ra EXCEPT ![e].pc = "returned"]
  /\ UNCHANGED <<events, stepLog, pe, outbox, messages, clock,
               fetches, tasks, api, probe,
                 share, sync>>

RA_CompleteEmptyRejected(e) ==
  /\ ra[e].pc = "complete_empty"
  /\ ra' = [ra EXCEPT ![e].pc = "threw", ![e].errMsg = "updateWorkflowRun failed"]
  /\ hist' = [hist EXCEPT ![ra[e].runId] = Ended(Rejected(@, "update_completed"))]
  /\ UNCHANGED <<events, runs, stepLog, pe, outbox, messages, clock,
               fetches, tasks, api, probe,
                 share, sync>>

\* (mutant) the loop without its `if (!shouldContinue) break`
LoopContinues_NoBreak(steps, shouldContinue) == steps # <<>>

\* for (const step of steps) { if (!shouldContinue) break; ...
LoopContinues(steps, shouldContinue) == steps # <<>> /\ shouldContinue

\* lines 161-200: one step is executed
RA_ExecStep(e) ==
  /\ ra[e].pc = "exec"
  /\ LoopContinues(ra[e].steps, ra[e].shouldContinue)
  /\ LET step == Head(ra[e].steps) IN
     \E out \in ExecOutcomes(step, ra[e].context, RunOrgSlug(e), clock) :
       /\ ra' = [ra EXCEPT
                   ![e].step = step,
                   ![e].steps = Tail(ra[e].steps),
                   ![e].result = out.result,
                   ![e].errMsg = out.error,
                   ![e].shouldContinue = ~out.result.stopped,
                   ![e].wakeAt = clock + out.fx.wait,
                   ![e].pc = CASE out.kind = "result" -> "log_completed"
                               [] out.kind = "suspend" -> "waiting"
                               [] OTHER -> "log_failed"]
       /\ hist' = [hist EXCEPT
                     ![ra[e].runId].started = Append(@, step.id),
                     ![ra[e].runId].steps = Append(@, step),
                     ![ra[e].runId].startedAt = Append(@, clock),
                     ![ra[e].runId].results = Append(@, out),
                     ![ra[e].runId].raised =
                        IF out.kind = "throw" THEN step.id ELSE @,
                     ![ra[e].runId].raisedMsg =
                        IF out.kind = "throw" THEN out.error ELSE @,
                     ![ra[e].runId].stopped =
                        IF out.result.stopped THEN step.id ELSE @,
                     ![ra[e].runId].suspended =
                        IF out.kind = "suspend"
                        THEN Append(@, [step |-> step.id, at |-> clock,
                                        seconds |-> out.fx.wait])
                        ELSE @,
                     ![ra[e].runId].lookups = IF out.fx.lookup THEN @ + 1 ELSE @,
                     ![ra[e].runId].sms = @ + Len(out.fx.sms),
                     ![ra[e].runId].msgs = @ + Len(out.fx.message),
                     ![ra[e].runId].fetches = @ \o out.fx.fetch,
                     ![ra[e].runId].tasks = @ \o out.fx.task]
       /\ outbox' = outbox \o out.fx.sms
       /\ messages' = messages \o out.fx.message
       /\ fetches' = fetches \o out.fx.fetch
       /\ tasks' = tasks \o out.fx.task
  /\ UNCHANGED <<events, runs, stepLog, pe, clock, api, probe,
                 share, sync>>

\* the durable scheduler's time passes while a run is suspended
Tick(e) ==
  /\ ra[e].pc = "waiting"
  /\ \E t \in {ra[e].wakeAt - 1, ra[e].wakeAt, ra[e].wakeAt + 1} :
       t > clock /\ clock' = t
  /\ UNCHANGED <<events, runs, stepLog, pe, ra, hist, outbox, messages,
               fetches, tasks, api, probe,
                 share, sync>>

\* (mutant) an in-process timer that may fire one second early
WaitElapsed_Early(now, wakeAt) == now >= wakeAt - 1

\* wait.for({ seconds }) resumes the run at or after the target time
WaitElapsed(now, wakeAt) == now >= wakeAt

\* lines 268-269: the wait is over, executeWaitStep returns
RA_Resume(e) ==
  /\ ra[e].pc = "waiting"
  /\ WaitElapsed(clock, ra[e].wakeAt)
  /\ ra' = [ra EXCEPT ![e].pc = "log_completed"]
  /\ UNCHANGED <<events, runs, stepLog, pe, hist, outbox, messages, clock,
               fetches, tasks, api, probe,
                 share, sync>>

\* (mutant) the record is attached to the run created last
LogRow_LatestRun(t, status, errorMessage) ==
  [run_id |-> Len(runs), step_id |-> t.step.id,
   step_order |-> LoggedStepOrder(t.step), step_type |-> t.step.stepType,
   action_type |-> t.step.actionType, status |-> status,
   result |-> IF status = "completed" THEN t.result ELSE SkipResult,
   error_message |-> errorMessage]

\* the row logStepExecution inserts
LogRow(t, status, errorMessage) ==
  [run_id |-> t.runId, step_id |-> t.step.id,
   step_order |-> LoggedStepOrder(t.step), step_type |-> t.step.stepType,
   action_type |-> t.step.actionType, status |-> status,
   result |-> IF status = "completed" THEN t.result ELSE SkipResult,
   error_message |-> errorMessage]

\* (mutant) an upsert keyed by the run: the run's latest record is overwritten
logStepExecution_Upsert(log, row) ==
  IF log # <<>> /\ log[Len(log)].run_id = row.run_id
  THEN [log EXCEPT ![Len(log)] = row]
  ELSE Append(log, row)

\* logStepExecution: insert into workflow_run_steps
logStepExecution(log, row) == Append(log, row)

\* (mutant) the id of a created task is put into the context for later steps
RA_LogCompleted_KeepsTaskId(e) ==
  /\ ra[e].pc = "log_completed"
  /\ stepLog' = logStepExecution(stepLog, LogRow(ra[e], "completed", ""))
  /\ ra' = [ra EXCEPT ![e].stepsExecuted = @ + 1, ![e].pc = "exec",
                      ![e].context =
                         IF ra[e].result.tag = "created"
                         THEN [k \in DOMAIN @ \cup {"taskId"} |->
                                 IF k = "taskId" THEN JsStr("t1") ELSE @[k]]
                         ELSE @]
  /\ UNCHANGED <<events, runs, pe, hist, outbox, messages, clock,
               fetches, tasks, api, probe,
                 share, sync>>

\* lines 203-215: the step's result is logged
RA_LogCompleted(e) ==
  /\ ra[e].pc = "log_completed"
  /\ stepLog' = logStepExecution(stepLog, LogRow(ra[e], "completed", ""))
  /\ ra' = [ra EXCEPT ![e].stepsExecuted = @ + 1, ![e].pc = "exec"]
  /\ UNCHANGED <<events, runs, pe, hist, outbox, messages, clock,
               fetches, tasks, api, probe,
                 share, sync>>

\* logStepExecution rejected inside the try block: control enters the catch
\* of line 216 with the store's error
RA_LogCompletedRejected(e) ==
  /\ ra[e].pc = "log_completed"
  /\ ra' = [ra EXCEPT ![e].errMsg = LogError, ![e].pc = "log_failed"]
  /\ hist' = [hist EXCEPT ![ra[e].runId] = Rejected(@, "log_completed")]
  /\ UNCHANGED <<events, runs, stepLog, pe, outbox, messages, clock,
               fetches, tasks, api, probe,
                 share, sync>>

\* lines 217-230: the catch block logs the step as failed
RA_LogFailed(e) ==
  /\ ra[e].pc = "log_failed"
  /\ stepLog' = logStepExecution(stepLog, LogRow(ra[e], "failed", ra[e].errMsg))
  /\ ra' = [ra EXCEPT ![e].pc = "update_failed"]
  /\ UNCHANGED <<events, runs, pe, hist, outbox, messages, clock,
               fetches, tasks, api, probe,
                 share, sync>>

\* (mutant) a logStepExecution that reports the store's error without
\* throwing: the catch block goes on to the run update
RA_LogFailedRejected_Swallowed(e) ==
  /\ ra[e].pc = "log_failed"
  /\ ra' = [ra EXCEPT ![e].pc = "update_failed"]
  /\ hist' = [hist EXCEPT ![ra[e].runId] = Rejected(@, "log_failed")]
  /\ UNCHANGED <<events, runs, stepLog, pe, outbox, messages, clock,
               fetches, tasks, api, probe,
                 share, sync>>

\* logStepExecution rejected inside the catch block: its error leaves the task
RA_LogFailedRejected(e) ==
  /\ ra[e].pc = "log_failed"
  /\ ra' = [ra EXCEPT ![e].errMsg = LogError, ![e].pc = "threw"]
  /\ hist' = [hist EXCEPT ![ra[e].runId] = Ended(Rejected(@, "log_failed"))]
  /\ UNCHANGED <<events, runs, stepLog, pe, outbox, messages, clock,
               fetches, tasks, api, probe,
                 share, sync>>

\* (mutant) no rethrow: the loop goes on after a failed step
AfterStepFailure_Continue == "exec"

\* (mutant) the error swallowed: the task returns after the failed update
AfterStepFailure_Return == "returned"

\* line 239: throw new Error(...) ends the task after the failed update
AfterStepFailure == "threw"

\* (mutant) the failed step is put back and executed again
RA_UpdateFailed_Retry(e) ==
  /\ ra[e].pc = "update_failed"
  /\ Len(hist[ra[e].runId].started) < MaxSteps + 1
  /\ runs' = updateWorkflowRun(runs, ra[e].runId, "failed", ra[e].errMsg)
  /\ hist' = [hist EXCEPT ![ra[e].runId] = Terminal(@)]
  /\ ra' = [ra EXCEPT ![e].steps = <<ra[e].step>> \o @, ![e].pc = "exec"]
  /\ UNCHANGED <<events, stepLog, pe, outbox, messages, clock,
               fetches, tasks, api, probe,
                 share, sync>>

\* lines 232-239: the run is marked failed and the error is rethrown
RA_UpdateFailed(e) ==
  /\ ra[e].pc = "update_failed"
  /\ runs' = updateWorkflowRun(runs, ra[e].runId, "failed", ra[e].errMsg)
  /\ hist' = [hist EXCEPT ![ra[e].runId] =
                IF AfterStepFailure = "threw" THEN Ended(Terminal(@)) ELSE Terminal(@)]
  /\ ra' = [ra EXCEPT ![e].pc = AfterStepFailure]
  /\ UNCHANGED <<events, stepLog, pe, outbox, messages, clock,
               fetches, tasks, api, probe,
                 share, sync>>

RA_UpdateFailedRejected(e) ==
  /\ ra[e].pc = "update_failed"
  /\ ra' = [ra EXCEPT ![e].errMsg = "updateWorkflowRun failed", ![e].pc = "threw"]
  /\ hist' = [hist EXCEPT ![ra[e].runId] = Ended(Rejected(@, "update_failed"))]
  /\ UNCHANGED <<events, runs, stepLog, pe, outbox, messages, clock,
               fetches, tasks, api, probe,
                 share, sync>>

\* lines 243-250: the loop is over (exhausted, or stopped by a Condition)
RA_Complete(e) ==
  /\ ra[e].pc = "exec"
  /\ ~LoopContinues(ra[e].steps, ra[e].shouldContinue)
  /\ runs' = updateWorkflowRun(runs, ra[e].runId, "completed", "")
  /\ hist' = [hist EXCEPT ![ra[e].runId] = Ended(Terminal(@))]
  /\ ra' = [ra EXCEPT ![e].pc = "returned"]
  /\ UNCHANGED <<events, stepLog, pe, outbox, messages, clock,
               fetches, tasks, api, probe,
                 share, sync>>

RA_CompleteRejected(e) ==
  /\ ra[e].pc = "exec"
  /\ ~LoopContinues(ra[e].steps, ra[e].shouldContinue)
  /\ ra' = [ra EXCEPT ![e].errMsg = "updateWorkflowRun failed", ![e].pc = "threw"]
  /\ hist' = [hist EXCEPT ![ra[e].runId] = Ended(Rejected(@, "update_completed"))]
  /\ UNCHANGED <<events, runs, stepLog, pe, outbox, messages, clock,
               fetches, tasks, api, probe,
                 share, sync>>

\* ------------------------------------------------------------ specification
\* the engine over given contents of the automations and workflow_steps tables
\* the steps of the tasks process-crm-event and run-automation
Tasks(tables, stepTables) ==
  \/ \E e \in EventIds, tbl \in tables : PE_Load(e, tbl)
  \/ \E e \in EventIds : PE_LoadRejected(e)
  \/ \E e \in EventIds : PE_MarkNone(e)
  \/ \E e \in EventIds : PE_Trigger(e)
  \/ \E e \in EventIds : PE_Collect(e)
  \/ \E e \in EventIds : PE_MarkProcessed(e)
  \/ \E e \in EventIds : RA_CreateRun(e)
  \/ \E e \in EventIds : RA_CreateRunRejected(e)
  \/ \E e \in EventIds, rows \in stepTables : RA_LoadSteps(e, rows)
  \/ \E e \in EventIds : RA_LoadStepsRejected(e)
  \/ \E e \in EventIds : RA_CompleteEmpty(e)
  \/ \E e \in EventIds : RA_CompleteEmptyRejected(e)
  \/ \E e \in EventIds : RA_ExecStep(e)
  \/ \E e \in EventIds : RA_LogCompleted(e)
  \/ \E e \in EventIds : RA_LogCompletedRejected(e)
  \/ \E e \in EventIds : RA_LogFailed(e)
  \/ \E e \in EventIds : RA_LogFailedRejected(e)
  \/ \E e \in EventIds : RA_UpdateFailed(e)
  \/ \E e \in EventIds : RA_UpdateFailedRejected(e)
  \/ \E e \in EventIds : RA_Complete(e)
  \/ \E e \in EventIds : RA_CompleteRejected(e)

\* the engine on the first event ingested
Engine(tables, stepTables, inputs) ==
  \/ \E in \in inputs :
       Len(events) < 1 /\ EmitEvent(in.eventType, in.payload, in.orgSlug)
  \/ Tasks(tables, stepTables)

\* one automation with every content of its steps: a run in depth
BasicInputs == [eventType : EventTypes, payload : Payloads, orgSlug : {EventSlug}]
Next == Engine(OneRowTables, StepTables, BasicInputs)
Spec == Init /\ [][Next]_vars

\* every content of the automations table, short automations: the routing
NextRoute == Engine(AutomationTables, ShortStepTables, BasicInputs)
SpecRoute == Init /\ [][NextRoute]_vars

\* inbound SMS events of tenants with and without a messaging identity, for
\* one automation on sms_received (published, or still a draft)
OrgSlugs == {"vector", "bmg", "acme", "constructor"}
SmsPayloads ==
  { [body |-> "STOP"],
    [body |-> "STOP", from |-> "+15550100"],
    [body |-> "NONSTOP", from |-> "+15550100"],
    [body |-> "hello", from |-> "+15550100"] }
SmsInputs == [eventType : {"sms.inbound"}, payload : SmsPayloads, orgSlug : OrgSlugs]
SmsTables ==
  { { [id |-> 1, org_id |-> EventOrg, status |-> st,
       triggerType |-> "sms_received", triggerValue |-> NULL] } :
    st \in {"published", "draft"} }

\* the step definitions the builder can store, unknown ones included
WaitConfigs ==
  { [NoConfig EXCEPT !.delayMinutes = m, !.delayHours = h, !.delayDays = d] :
      m \in {0, 5}, h \in {0, 1}, d \in {0, 1} }
  \cup { [NoConfig EXCEPT !.delay_minutes = 5],
         [NoConfig EXCEPT !.delayMinutes = -5],
         [NoConfig EXCEPT !.delayMinutes = -90, !.delayHours = 1] }
BodyConfigs ==
  { [NoConfig EXCEPT !.field = "body", !.operator = op, !.value = JsStr("STOP"),
                     !.stopOnFalse = b] :
      op \in {"contains", "matches"}, b \in BOOLEAN }
SmsConfigs ==
  { [NoConfig EXCEPT !.to = to, !.body = body] :
      to \in {<<>>, <<Ph("from")>>, <<Lit("+15550111")>>},
      body \in {<<>>, <<Lit("Goodbye")>>} }
Goodbye == [stepType |-> "Action", actionType |-> "send_sms",
            config |-> [NoConfig EXCEPT !.to = <<Ph("from")>>,
                                        !.body = <<Lit("Goodbye")>>]]
RichShapes ==
  [stepType : {"Trigger", "Loop"}, actionType : {""}, config : {NoConfig}]
  \cup [stepType : {"Wait"}, actionType : {""}, config : WaitConfigs]
  \cup [stepType : {"Condition"}, actionType : {""}, config : BodyConfigs]
  \cup [stepType : {"Action"}, actionType : {"send_sms"}, config : SmsConfigs]
  \cup [stepType : {"Action"}, actionType : {"send_fax", "webhook"},
        config : {NoConfig, HookConfig}]
FollowShapes ==
  { [stepType |-> "Trigger", actionType |-> "", config |-> NoConfig], Goodbye }
\* no step, one step of any shape, or such a step and one that follows it
RichStepTables ==
  { {} }
  \cup { { StepRow(1, s) } : s \in RichShapes }
  \cup { { StepRow(1, s), StepRow(2, t) } : s \in RichShapes, t \in FollowShapes }

\* one automation on inbound SMS with every step definition: the step executors
NextSteps ==
  \/ Engine(SmsTables, RichStepTables, SmsInputs)
  \/ \E e \in EventIds : Tick(e)
  \/ \E e \in EventIds : RA_Resume(e)
SpecSteps == Init /\ [][NextSteps]_vars

\* the action executors: no automation, or one published automation on inbound
\* SMS of a tenant with a messaging identity, whose steps are actions of
\* every kind
ActionPayloads ==
  { [from |-> "+15550100", body |-> "hello"],
    [from |-> "+15550100", body |-> "hello", entityType |-> "contact"] }
ActionInputs ==
  [eventType : {"sms.inbound"}, payload : ActionPayloads, orgSlug : {EventSlug}]
ActionTables ==
  { {} } \cup
  { { [id |-> 1, org_id |-> EventOrg, status |-> "published",
       triggerType |-> "sms_received", triggerValue |-> NULL] } }
EmailConfigs ==
  { [NoConfig EXCEPT !.to = <<Lit("a@example.com")>>, !.subject = subject,
                     !.body = <<Lit("Goodbye")>>] :
      subject \in {<<>>, <<Lit("Hi "), Ph("from")>>} }
DueInDaysValues ==
  {JsUndef, JsNum(0), JsNum(1), JsNum(3), JsStr("2"), JsStr("soon")}
TaskConfigs ==
  { [NoConfig EXCEPT !.dueInDays = d] : d \in DueInDaysValues }
  \cup { [NoConfig EXCEPT !.title = <<Lit("Call "), Ph("from")>>,
                          !.dueInDays = JsNum(3)] }
OneDay == [stepType |-> "Wait", actionType |-> "",
           config |-> [NoConfig EXCEPT !.delayDays = 1]]
ActionShapes ==
  { Goodbye }
  \cup [stepType : {"Action"}, actionType : {"send_email"}, config : EmailConfigs]
  \cup [stepType : {"Action"}, actionType : {"create_task"}, config : TaskConfigs]
  \cup [stepType : {"Action"}, actionType : {"webhook"}, config : {NoConfig, HookConfig}]
\* no step, one action, or an action after a first step: another action, or
\* a wait of one day
ActionStepTables ==
  { {} }
  \cup { { StepRow(1, s) } : s \in ActionShapes }
  \cup { { StepRow(1, s), StepRow(2, t) } :
         s \in ActionShapes \cup {OneDay}, t \in ActionShapes }
NextActions ==
  \/ Engine(ActionTables, ActionStepTables, ActionInputs)
  \/ \E e \in EventIds : Tick(e)
  \/ \E e \in EventIds : RA_Resume(e)
SpecActions == Init /\ [][NextActions]_vars


\* SMS events whose payload may carry keys named orgId and entityId, for an
\* automation whose steps write: send_sms, create_task, update_field
TenantPayloads ==
  { [from |-> "+15550100", body |-> "hello"],
    [from |-> "+15550100", body |-> "hello", orgId |-> "org2"],
    [from |-> "+15550100", body |-> "hello", entityId |-> "e9"],
    [from |-> "+15550100", body |-> "hello", orgId |-> "org2", entityId |-> "e9"] }
TenantInputs ==
  [eventType : {"sms.inbound"}, payload : TenantPayloads, orgSlug : {EventSlug}]
StageWon == [stepType |-> "Action", actionType |-> "update_field",
             config |-> [NoConfig EXCEPT !.table = "leads", !.field = "stage",
                                         !.value = JsStr("won")]]
WritingShapes ==
  { Goodbye, StageWon,
    [stepType |-> "Action", actionType |-> "create_task", config |-> NoConfig],
    [stepType |-> "Action", actionType |-> "update_field", config |-> NoConfig] }
TenantStepTables ==
  { {} }
  \cup { { StepRow(1, s) } : s \in WritingShapes }
  \cup { { StepRow(1, s), StepRow(2, t) } : s \in WritingShapes, t \in WritingShapes }
NextTenant == Engine(ActionTables, TenantStepTables, TenantInputs)
SpecTenant == Init /\ [][NextTenant]_vars

\* two inbound SMS events of one tenant without a messaging identity, each
\* routed by its own task to one automation (the same one or another), whose
\* run stops on its own event's body or fails in send_sms: the tasks' steps
\* interleave freely
PairPayloads == { [body |-> "STOP"], [body |-> "hello"] }
PairInputs ==
  [eventType : {"sms.inbound"}, payload : PairPayloads, orgSlug : {"bmg"}]
PairTables ==
  { {} } \cup
  { { [id |-> a, org_id |-> EventOrg, status |-> "published",
       triggerType |-> "sms_received", triggerValue |-> NULL] } : a \in {1, 2} }
StopUnlessStop ==
  [stepType |-> "Condition", actionType |-> "",
   config |-> [NoConfig EXCEPT !.field = "body", !.operator = "contains",
                               !.value = JsStr("STOP"), !.stopOnFalse = TRUE]]
PairStepTables ==
  { {} } \cup
  { { StepRow(1, StopUnlessStop),
      StepRow(2, [stepType |-> "Action", actionType |-> "send_sms",
                  config |-> [NoConfig EXCEPT !.to = <<Lit("+15550111")>>,
                                              !.body = <<Ph("body")>>]]) } }
NextPair ==
  \/ \E in \in PairInputs : EmitEvent(in.eventType, in.payload, in.orgSlug)
  \/ Tasks(PairTables, PairStepTables)
SpecPair == Init /\ [][NextPair]_vars

\* ------------------------------------------ the handler of /api/trigger-event
\* line 42: if (!orgId || !eventType || !entityType)
MissingRequired(req) == req.orgId = "" \/ req.eventType = "" \/ req.entityType = ""
\* lines 30-44: the response given before any store access (0: none)
EarlyStatus(req, serviceKey) ==
  CASE req.method = "OPTIONS" -> 200
    [] req.method # "POST" -> 405
    [] ~serviceKey -> 500
    [] MissingRequired(req) -> 400
    [] OTHER -> 0

\* a request arrives; the deployment has or lacks each of its two secrets
Api_Request(req, serviceKey, triggerApiKey) ==
  /\ api.pc = "idle"
  /\ api' = [api EXCEPT !.pc = "received", !.req = req, !.serviceKey = serviceKey,
                        !.triggerApiKey = triggerApiKey]
  /\ UNCHANGED <<events, runs, stepLog, pe, ra, hist, outbox, messages, clock,
                 fetches, tasks, probe,
                 share, sync>>

\* lines 30-44: method, configuration and required fields
Api_Validate ==
  /\ api.pc = "received"
  /\ LET status == EarlyStatus(api.req, api.serviceKey) IN
       api' = [api EXCEPT !.status = status,
                          !.pc = IF status = 0 THEN "insert" ELSE "done"]
  /\ UNCHANGED <<events, runs, stepLog, pe, ra, hist, outbox, messages, clock,
                 fetches, tasks, probe,
                 share, sync>>

\* lines 47-67: the event row is inserted and its id read from the response
Api_Insert ==
  /\ api.pc = "insert"
  /\ Len(events) < MaxEvents
  /\ events' = Append(events, [org_id |-> api.req.orgId,
                               event_type |-> api.req.eventType,
                               entity_id |-> EventEntity,
                               payload |-> api.req.payload, processed_at |-> 0])
  /\ api' = [api EXCEPT !.eventId = Len(events) + 1, !.pc = "trigger"]
  /\ UNCHANGED <<runs, stepLog, pe, ra, hist, outbox, messages, clock,
                 fetches, tasks, probe,
                 share, sync>>

\* (mutant) the handler goes on to the trigger after a failed insert
AfterInsertFailure_Trigger == "trigger"

\* line 62-64: return res.status(500)
AfterInsertFailure == "done"

\* the store refuses the insert (line 62), or cannot be reached and fetch
\* throws (line 113)
Api_InsertFailed ==
  /\ api.pc = "insert"
  /\ api' = [api EXCEPT !.pc = AfterInsertFailure,
                        !.status = IF AfterInsertFailure = "done" THEN 500 ELSE 0]
  /\ UNCHANGED <<events, runs, stepLog, pe, ra, hist, outbox, messages, clock,
                 fetches, tasks, probe,
                 share, sync>>

\* lines 70-106: process-crm-event is triggered through the executor's API,
\* which accepts the request or not; without TRIGGER_SECRET_KEY nothing is sent
Api_Trigger ==
  /\ api.pc = "trigger"
  /\ \E answer \in IF api.triggerApiKey THEN {"accepted", "failed"} ELSE {"skipped"} :
       /\ api' = [api EXCEPT !.pc = "respond", !.trigger = answer,
                             !.triggered = (answer = "accepted")]
       /\ pe' = IF answer = "accepted" /\ api.eventId \in EventIds
                THEN [pe EXCEPT ![api.eventId] =
                        [IdlePe EXCEPT !.pc = "load", !.attempt = 1,
                                       !.orgSlug = api.req.orgSlug]]
                ELSE pe
  /\ UNCHANGED <<events, runs, stepLog, ra, hist, outbox, messages, clock,
                 fetches, tasks, probe,
                 share, sync>>

\* lines 108-112: res.status(200).json({ ok: true, eventId, trigger })
Api_Respond ==
  /\ api.pc = "respond"
  /\ api' = [api EXCEPT !.pc = "done", !.status = 200]
  /\ UNCHANGED <<events, runs, stepLog, pe, ra, hist, outbox, messages, clock,
                 fetches, tasks, probe,
                 share, sync>>

\* the requests: a POST with each required field present or not, and the
\* other methods
FullRequest == [method |-> "POST", orgId |-> EventOrg, eventType |-> "sms.inbound",
                entityType |-> "contact", payload |-> [body |-> "hello"],
                orgSlug |-> EventSlug]
Requests ==
  { [FullRequest EXCEPT !.orgId = o, !.eventType = t, !.entityType = y] :
      o \in {EventOrg, ""}, t \in {"sms.inbound", ""}, y \in {"contact", ""} }
  \cup { [FullRequest EXCEPT !.method = m] : m \in {"OPTIONS", "GET"} }
IngestTables == ActionTables
\* the endpoint and the tasks it triggers
NextIngest ==
  \/ \E req \in Requests, serviceKey \in BOOLEAN, triggerApiKey \in BOOLEAN :
       Api_Request(req, serviceKey, triggerApiKey)
  \/ Api_Validate
  \/ Api_Insert
  \/ Api_InsertFailed
  \/ Api_Trigger
  \/ Api_Respond
  \/ Tasks(IngestTables, ShortStepTables)
SpecIngest == Init /\ [][NextIngest]_vars


\* the ingestion under fair scheduling: the handler runs to its answer, and
\* the task executor lets every started task take its next step
Api_Steps == Api_Validate \/ Api_Insert \/ Api_InsertFailed \/ Api_Trigger \/ Api_Respond
SpecIngestFair ==
  /\ SpecIngest
  /\ WF_vars(Api_Steps)
  /\ WF_vars(Tasks(IngestTables, ShortStepTables))


\* ------------------------------------------- POST /api/quote-share (create)
\* the quotes in the store, and the quote ids of the requests
Quotes == {1, 2}
RequestedQuotes == {1, 2, 3}
\* the link creations of one behaviour
MaxCreations == 3
Min(a, b) == IF a < b THEN a ELSE b

\* lines 95-105: a POST with a valid quoteId arrives at a free handler
Share_Request(i, quoteId) ==
  /\ share.h[i].pc = "idle"
  /\ share.requests < MaxCreations
  /\ share' = [share EXCEPT !.h[i] = [IdleHandler EXCEPT !.pc = "lookup",
                                                         !.quoteId = quoteId],
                            !.requests = @ + 1]
  /\ UNCHANGED <<events, runs, stepLog, pe, ra, hist, outbox, messages, clock,
                 fetches, tasks, api, probe, sync>>

\* lines 109-117: the quote is read: a store error (500), no such quote (404),
\* or the quote's row
Share_Lookup(i) ==
  /\ share.h[i].pc = "lookup"
  /\ \E ok \in BOOLEAN :
       share' = [share EXCEPT
                   !.h[i] = IF ~ok THEN [IdleHandler EXCEPT !.status = 500]
                            ELSE IF share.h[i].quoteId \notin Quotes
                            THEN [IdleHandler EXCEPT !.status = 404]
                            ELSE [@ EXCEPT !.pc = "revoke"]]
  /\ UNCHANGED <<events, runs, stepLog, pe, ra, hist, outbox, messages, clock,
                 fetches, tasks, api, probe, sync>>

\* PATCH quote_share_links?quote_id=eq.<qid>&revoked_at=is.null
RevokeActive(links, quoteId) ==
  [k \in DOMAIN links |->
     IF links[k].quote_id = quoteId THEN [links[k] EXCEPT !.revoked = TRUE]
     ELSE links[k]]

\* lines 124-144: the active links of the quote are revoked (then the quote's
\* expires_at is set when missing, which touches no link)
Share_Revoke(i) ==
  /\ share.h[i].pc = "revoke"
  /\ share' = [share EXCEPT !.links = RevokeActive(@, share.h[i].quoteId),
                            !.h[i].pc = "insert"]
  /\ UNCHANGED <<events, runs, stepLog, pe, ra, hist, outbox, messages, clock,
                 fetches, tasks, api, probe, sync>>

\* lines 124-132, the store rejects the PATCH: its answer is not looked at
Share_RevokeRejected(i) ==
  /\ share.h[i].pc = "revoke"
  /\ share' = [share EXCEPT !.h[i].pc = "insert"]
  /\ UNCHANGED <<events, runs, stepLog, pe, ra, hist, outbox, messages, clock,
                 fetches, tasks, api, probe, sync>>

\* lines 146-163: the new link is inserted and its URL is returned
Share_Insert(i) ==
  /\ share.h[i].pc = "insert"
  /\ share' = [share EXCEPT
                 !.links = Append(@, [quote_id |-> share.h[i].quoteId,
                                      revoked |-> FALSE]),
                 !.h[i] = [IdleHandler EXCEPT !.status = 200]]
  /\ UNCHANGED <<events, runs, stepLog, pe, ra, hist, outbox, messages, clock,
                 fetches, tasks, api, probe, sync>>

\* line 153: the insert is rejected
Share_InsertRejected(i) ==
  /\ share.h[i].pc = "insert"
  /\ share' = [share EXCEPT !.h[i] = [IdleHandler EXCEPT !.status = 500]]
  /\ UNCHANGED <<events, runs, stepLog, pe, ra, hist, outbox, messages, clock,
                 fetches, tasks, api, probe, sync>>

NextShare ==
  \E i \in Handlers :
    \/ \E quoteId \in RequestedQuotes : Share_Request(i, quoteId)
    \/ Share_Lookup(i)
    \/ Share_Revoke(i)
    \/ Share_RevokeRejected(i)
    \/ Share_Insert(i)
    \/ Share_InsertRejected(i)
SpecShare == Init /\ [][NextShare]_vars


\* ------------------------------------------------------- syncOpportunities
\* hasMore = opps.length >= 100
PageSize == 100
\* for (let attempt = 0; attempt <= 3; attempt++)
MaxRetries == 3
\* the numbers of opportunities a pipeline's endpoint returns, and the
\* contents of the remote account: at most two pipelines
OppCounts == {0, 1, 99, 100, 101}
PipelineContents ==
  { <<>> } \cup { <<n>> : n \in OppCounts }
           \cup { <<n, m>> : n \in OppCounts, m \in OppCounts }
\* the counters are followed up to these values
MaxCount == 500
MaxPage == 4

\* syncOpportunities is called
Sync_Start(content) ==
  /\ sync.pc = "idle"
  /\ sync' = [IdleSync EXCEPT !.pc = "list", !.content = content]
  /\ UNCHANGED <<events, runs, stepLog, pe, ra, hist, outbox, messages, clock,
                 fetches, tasks, api, probe, share>>

\* ghlFetch, lines 35-38: 429 before the last attempt, wait and try again
Ghl_RateLimited ==
  /\ sync.pc \in {"list", "page"}
  /\ sync.attempt < MaxRetries
  /\ sync' = [sync EXCEPT !.attempt = @ + 1]
  /\ UNCHANGED <<events, runs, stepLog, pe, ra, hist, outbox, messages, clock,
                 fetches, tasks, api, probe, share>>

\* ghlFetch, line 30: fetch raises, the error leaves syncOpportunities
Ghl_Throws ==
  /\ sync.pc \in {"list", "page"}
  /\ sync' = [sync EXCEPT !.pc = "threw", !.attempt = 0]
  /\ UNCHANGED <<events, runs, stepLog, pe, ra, hist, outbox, messages, clock,
                 fetches, tasks, api, probe, share>>

\* lines 192-194: the pipelines are listed; an answer that is no JSON, or has
\* no pipelines, gives none
Sync_ListPipelines ==
  /\ sync.pc = "list"
  /\ \E ok \in BOOLEAN :
       sync' = [sync EXCEPT !.todo = IF ok THEN sync.content ELSE <<>>,
                            !.attempt = 0, !.pc = "next"]
  /\ UNCHANGED <<events, runs, stepLog, pe, ra, hist, outbox, messages, clock,
                 fetches, tasks, api, probe, share>>

\* lines 194-195: for (const pipeline of ...) { let page = 1, hasMore = true
Sync_NextPipeline ==
  /\ sync.pc = "next"
  /\ sync' = IF sync.todo = <<>> THEN [sync EXCEPT !.pc = "done"]
             ELSE [sync EXCEPT !.page = 1, !.hasMore = TRUE, !.pc = "while"]
  /\ UNCHANGED <<events, runs, stepLog, pe, ra, hist, outbox, messages, clock,
                 fetches, tasks, api, probe, share>>

\* line 196: while (hasMore)
Sync_While ==
  /\ sync.pc = "while"
  /\ sync' = IF sync.hasMore THEN [sync EXCEPT !.pc = "page"]
             ELSE [sync EXCEPT !.todo = Tail(@), !.pc = "next"]
  /\ UNCHANGED <<events, runs, stepLog, pe, ra, hist, outbox, messages, clock,
                 fetches, tasks, api, probe, share>>

\* lines 197-208: pipelines/<id>/opportunities is fetched (the request carries
\* no page), each opportunity returned is upserted and counted, and hasMore
\* and page are set; an answer that is no JSON, or has no opportunities, gives
\* none
Sync_Page ==
  /\ sync.pc = "page"
  /\ \E ok \in BOOLEAN :
       LET opps == IF ok THEN Head(sync.todo) ELSE 0 IN
         sync' = [sync EXCEPT !.count = Min(@ + opps, MaxCount),
                              !.hasMore = opps >= PageSize,
                              !.page = Min(@ + 1, MaxPage),
                              !.fetches = Min(@ + 1, MaxPage),
                              !.attempt = 0, !.pc = "while"]
  /\ UNCHANGED <<events, runs, stepLog, pe, ra, hist, outbox, messages, clock,
                 fetches, tasks, api, probe, share>>

Sync_Steps ==
  \/ Ghl_RateLimited
  \/ Ghl_Throws
  \/ Sync_ListPipelines
  \/ Sync_NextPipeline
  \/ Sync_While
  \/ Sync_Page
NextSync ==
  \/ \E content \in PipelineContents : Sync_Start(content)
  \/ Sync_Steps
SpecSync == Init /\ [][NextSync]_vars
\* the function runs on: each of its steps is taken in the end
SpecSyncFair == SpecSync /\ WF_vars(Sync_Steps)

\* ------------------------------------------------------- the pure functions
\* the text of a template: a placeholder is written {{path}}
RECURSIVE TemplateText(_)
TemplateText(parts) ==
  IF parts = <<>> THEN ""
  ELSE (IF Head(parts).path = "" THEN Head(parts).lit
        ELSE "{{" \o Head(parts).path \o "}}") \o TemplateText(Tail(parts))
\* the templates whose text the model scans
PlaceholderPaths ==
  {"a.b", "a.b.c", "a", "missing", "missing.b", "a.missing", "count", "tpl",
   "constructor", "a.constructor", "toString"}
KnownTemplates ==
  { <<Ph(q)>> : q \in PlaceholderPaths }
  \cup { <<Lit("Hi "), Ph("a.b"), Lit("!")>>, <<Ph("a.b"), Ph("tpl")>>,
         <<Ph("missing"), Ph("count")>>, <<Lit("x"), Ph("a.b")>>,
         <<Lit("x"), Ph("tpl")>>, <<Lit("Hi "), Ph("tpl"), Lit("!")>>,
         <<Ph("tpl"), Lit("y")>>, <<Ph("a.b"), Lit("y")>> }
\* template.replace(/\{\{(\w+(?:\.\w+)*)\}\}/g, ...): the literal parts and the
\* placeholders the expression matches; a text with no match is one literal
Scan(text) ==
  IF \E parts \in KnownTemplates : TemplateText(parts) = text
  THEN CHOOSE parts \in KnownTemplates : TemplateText(parts) = text
  ELSE IF text = "" THEN <<>> ELSE <<Lit(text)>>

\* the arguments of the calls
ProbeContexts ==
  { NoProps,
    [count |-> JsNum(5)], [count |-> JsStr("5")], [count |-> JsNum(0)],
    [count |-> JsStr("")], [count |-> JsNull], [count |-> JsStr("abc")],
    [count |-> JsNum(-3)], [count |-> JsStr("hello")], [count |-> JsNum(10)],
    [a |-> JsObj([b |-> JsStr("x")])],
    [a |-> JsObj([b |-> JsNull])],
    [a |-> JsStr("x")],
    [a |-> JsObj([b |-> JsObj([c |-> JsNum(5)])])],
    [a |-> JsObj([b |-> JsStr("x")]), tpl |-> JsStr("{{a.b}}")],
    [a |-> JsObj([b |-> JsStr("{{tpl}}")]), tpl |-> JsStr("y")] }
ProbeOperators ==
  {"equals", "not_equals", "contains", "not_contains", "greater_than",
   "less_than", "is_empty", "is_not_empty", "", "matches"}
ProbeValues ==
  {JsNum(3), JsNum(5), JsNum(10), JsStr("5"), JsStr(""), JsStr("ell"),
   JsStr("abc"), JsUndef, JsNull}
ProbeFields == {"count", "missing", "a.b", "a.b.c", ""}
ProbeConfigs ==
  { [NoConfig EXCEPT !.field = f, !.operator = op, !.value = v] :
      f \in ProbeFields, op \in ProbeOperators, v \in ProbeValues }
ProbeTemplates ==
  { TemplateText(parts) : parts \in KnownTemplates }
  \cup {"", "plain", "{{ a.b }}", "{{a.}}"}
ProbePaths == PlaceholderPaths \cup {""}
Probes ==
  { [NoProbe EXCEPT !.fn = "evaluateCondition", !.config = c, !.context = ctx] :
      c \in ProbeConfigs, ctx \in ProbeContexts }
  \cup { [NoProbe EXCEPT !.fn = "interpolate", !.template = t, !.context = ctx] :
         t \in ProbeTemplates, ctx \in ProbeContexts }
  \cup { [NoProbe EXCEPT !.fn = "getNestedValue", !.path = q, !.context = ctx] :
         q \in ProbePaths, ctx \in ProbeContexts }

\* a call is about to be made
InitPure == Quiet /\ probe \in Probes

Evaluate ==
  /\ probe.fn = "evaluateCondition" /\ ~probe.done
  /\ probe' = [probe EXCEPT !.done = TRUE,
                            !.bool = evaluateCondition(probe.config, probe.context)]
  /\ UNCHANGED <<events, runs, stepLog, pe, ra, hist, outbox, messages, clock,
                 fetches, tasks, api,
                 share, sync>>

\* interpolate on the template, and once more on its own result
Interpolate ==
  /\ probe.fn = "interpolate" /\ ~probe.done
  /\ LET text == interpolate(Scan(probe.template), probe.context) IN
       probe' = [probe EXCEPT !.done = TRUE, !.text = text,
                              !.again = interpolate(Scan(text), probe.context)]
  /\ UNCHANGED <<events, runs, stepLog, pe, ra, hist, outbox, messages, clock,
                 fetches, tasks, api,
                 share, sync>>

Resolve ==
  /\ probe.fn = "getNestedValue" /\ ~probe.done
  /\ probe' = [probe EXCEPT !.done = TRUE,
                            !.value = getNestedValue(probe.context, probe.path)]
  /\ UNCHANGED <<events, runs, stepLog, pe, ra, hist, outbox, messages, clock,
                 fetches, tasks, api,
                 share, sync>>

NextPure == Evaluate \/ Interpolate \/ Resolve
SpecPure == InitPure /\ [][NextPure]_vars

\* ------------------------------------------------------------ observations
RunIds == DOMAIN runs
\* the step log of run r, in insertion order
LogOf(r) == LET OfRun(row) == row.run_id = r IN SelectSeq(stepLog, OfRun)
FailedRows(r) == LET Failed(row) == row.status = "failed" IN SelectSeq(LogOf(r), Failed)
Last(seq) == seq[Len(seq)]
\* the automation row the router matched for run r
MatchedRow(r) ==
  LET e == runs[r].event_id
  IN CHOOSE a \in { pe[e].automations[i] : i \in DOMAIN pe[e].automations } :
       a.id = runs[r].automation_id

\* ---------------------------------------------------------------------- C1
\* C1 as claimed: once the execution of a step raised an error and the run's
\* task has ended, the log holds exactly one 'failed' record for that step with
\* the error message, the run is 'failed' with the same message, and no later
\* step was executed or logged.
C1_AsClaimed ==
  \A r \in RunIds :
    (hist[r].raised # 0 /\ hist[r].ended) =>
      /\ Len(FailedRows(r)) = 1
      /\ FailedRows(r)[1].step_id = hist[r].raised
      /\ FailedRows(r)[1].error_message = hist[r].raisedMsg
      /\ runs[r].status = "failed"
      /\ runs[r].error = hist[r].raisedMsg
      /\ Last(hist[r].started) = hist[r].raised
      /\ Last(LogOf(r)).status = "failed"

\* C1 amended: once the execution of a step raised an error, no later step is
\* executed or logged and at most one 'failed' record (for that step, with the
\* error message, last in the run's log) is inserted; when the task has ended
\* and the store accepted the failed-step insert there is exactly one such
\* record, and when it also accepted the run update the run is 'failed' with
\* the same message; a rejected insert or update leaves the run 'running'.
C1_StepErrorFailsRun ==
  \A r \in RunIds :
    hist[r].raised # 0 =>
      /\ Last(hist[r].started) = hist[r].raised
      /\ Len(FailedRows(r)) <= 1
      /\ \A i \in DOMAIN LogOf(r) :
           LogOf(r)[i].status = "failed" =>
             /\ i = Len(LogOf(r))
             /\ LogOf(r)[i].step_id = hist[r].raised
             /\ LogOf(r)[i].error_message = hist[r].raisedMsg
      /\ (hist[r].ended /\ "log_failed" \notin hist[r].rejected) =>
            Len(FailedRows(r)) = 1
      /\ (hist[r].ended /\ hist[r].rejected \cap {"log_failed", "update_failed"} = {}) =>
            (runs[r].status = "failed" /\ runs[r].error = hist[r].raisedMsg)
      /\ (hist[r].rejected \cap {"log_failed", "update_failed"} # {}) =>
            runs[r].status = "running"
      /\ runs[r].status # "completed"

\* a run whose second step raised: one failed record, the run failed
C1_Witness ==
  \E r \in RunIds :
    /\ hist[r].raised # 0 /\ hist[r].ended
    /\ Len(hist[r].started) = 2
    /\ Len(FailedRows(r)) = 1
    /\ runs[r].status = "failed" /\ runs[r].error = FetchError

\* ---------------------------------------------------------------------- C2
\* C2 as claimed: in a run where a Condition step evaluated to false with
\* stopOnFalse set, no later step is executed or logged and the run is never
\* 'failed' (it ends 'completed').
C2_AsClaimed ==
  \A r \in RunIds :
    hist[r].stopped # 0 =>
      /\ Last(hist[r].started) = hist[r].stopped
      /\ \A i \in DOMAIN LogOf(r) :
           LogOf(r)[i].step_id = hist[r].stopped => i = Len(LogOf(r))
      /\ runs[r].status # "failed"

\* ---------------------------------------------------------------------- C3
\* C3: a run receives at most one terminal status update; its status is
\* terminal exactly when that one update was made.
C3_OneTerminalUpdate ==
  \A r \in RunIds :
    /\ hist[r].terminalWrites <= 1
    /\ (runs[r].status \in {"completed", "failed"}) <=> (hist[r].terminalWrites = 1)
    /\ hist[r].terminalWrites = 1 => hist[r].ended

\* a run marked failed after a step raised, its task over
C3_Witness ==
  \E r \in RunIds :
    runs[r].status = "failed" /\ hist[r].ended /\ Len(LogOf(r)) = 2

\* ---------------------------------------------------------------------- C4
\* C4 as claimed: every record of a run's step log carries the stepOrder of
\* the step it was written for, the records follow the order in which the
\* steps were started, and the step_order values are strictly increasing.
StepOrderOfId(id) == CHOOSE o \in StepOrders : StepIdOf(o) = id
C4_AsClaimed ==
  \A r \in RunIds :
    LET log == LogOf(r) IN
      /\ Len(log) <= Len(hist[r].started)
      /\ \A i \in DOMAIN log :
           /\ log[i].step_id = hist[r].started[i]
           /\ log[i].step_order = <<StepOrderOfId(log[i].step_id)>>
      /\ \A i \in DOMAIN log :
           i > 1 => log[i - 1].step_order[1] < log[i].step_order[1]

C7_ProcessedAtOnce ==
  \A e \in DOMAIN events :
    /\ events[e].processed_at <= 1
    /\ (pe[e].pc = "done") <=> (events[e].processed_at = 1)

\* the third attempt returned after two rejected ones
C7_Witness ==
  \E e \in DOMAIN events :
    pe[e].pc = "done" /\ pe[e].attempt = MaxAttempts /\ events[e].processed_at = 1

\* ---------------------------------------------------------------------- C8
\* C8 as claimed: a run exists for an automation that has a triggerValue only
\* if the event's payload carries an equal triggerValue.
C8_AsClaimed ==
  \A r \in RunIds :
    LET a == MatchedRow(r)
        payload == events[runs[r].event_id].payload
    IN a.triggerValue # NULL =>
         ("triggerValue" \in DOMAIN payload /\ payload["triggerValue"] = a.triggerValue)

\* ---------------------------------------------------------------------- C9
\* the trigger type the lookup table gives the event types of the model
ExpectedTriggerType(eventType) ==
  IF eventType = "lead.created" THEN "contact_created" ELSE eventType

C10_AsClaimed ==
  \A e \in DOMAIN events :
    ra[e].pc \in {"exec", "log_completed", "log_failed", "update_failed"} =>
      LET ctx == ra[e].context
          payload == events[e].payload
      IN /\ ctx["orgId"] = JsStr(RunOrgId(e))
         /\ ctx["orgSlug"] = JsStr(RunOrgSlug(e))
         /\ ctx["entityId"] = JsStr(RunEntityId(e))
         /\ \A k \in DOMAIN payload \ ReservedKeys : ctx[k] = JsStr(payload[k])

\* --------------------------------------------------------------------- C11
\* the run task of event e has ended and the router has not collected it yet
TaskOver(e) == ra[e].pc \in {"returned", "threw"}

\* C11 as claimed: once the run record is created the run task returns to its
\* caller, a step failure included (read in the claim's favour: as long as
\* the store rejects nothing).
C11_AsClaimed ==
  \A e \in DOMAIN events :
    (TaskOver(e) /\ ra[e].runId # 0 /\ hist[ra[e].runId].rejected = {}) =>
      ra[e].pc = "returned"

\* C11 amended: the run task raises when the creation of the run record is
\* rejected, and also when the load of the steps is rejected, when the
\* execution of a step raises, when a step-log insert is rejected or when a
\* run update is rejected; it returns {runId, stepsExecuted} only in the
\* remaining case, with the run 'completed', every logged step 'completed'
\* and stepsExecuted the number of steps logged.
C11_RaisesOrReturns ==
  \A e \in DOMAIN events :
    LET r == ra[e].runId IN
      /\ r = 0 => ra[e].pc \in {"off", "create", "threw"}
      /\ (ra[e].pc = "threw" /\ r # 0) =>
            /\ hist[r].raised # 0 \/ hist[r].rejected # {}
            /\ hist[r].ended
      /\ (r # 0 /\ hist[r].ended) =>
            (ra[e].pc = "threw" <=> (hist[r].raised # 0 \/ hist[r].rejected # {}))
      /\ ra[e].pc = "returned" =>
            /\ r # 0 /\ hist[r].ended
            /\ hist[r].raised = 0 /\ hist[r].rejected = {}
            /\ runs[r].status = "completed"
            /\ ra[e].stepsExecuted = Len(LogOf(r))
            /\ \A i \in DOMAIN LogOf(r) : LogOf(r)[i].status = "completed"

\* a run whose step raised: the run is marked failed and the task raises
C11_Witness ==
  \E e \in DOMAIN events :
    /\ ra[e].pc = "threw" /\ ra[e].runId # 0
    /\ hist[ra[e].runId].raised # 0
    /\ runs[ra[e].runId].status = "failed"

\* --------------------------------------------------------------------- C12
\* C12 as claimed: a run is 'failed', and a step is logged 'failed', only
\* when the execution of that step raised an error (never because a step
\* whose execution produced a result could not be logged); a terminal run is
\* 'completed' or failed by such a step.
C12_AsClaimed ==
  \A r \in RunIds :
    /\ runs[r].status = "failed" => hist[r].raised # 0
    /\ \A i \in DOMAIN LogOf(r) :
         LogOf(r)[i].status = "failed" => LogOf(r)[i].step_id = hist[r].raised

\* --------------------------------------------------------------------- C13
\* C13 as claimed: a run of an automation with zero steps, its task over, is
\* 'completed' and has no step-log record.
C13_AsClaimed ==
  \A r \in RunIds :
    (hist[r].loaded = 0 /\ hist[r].ended) =>
      (runs[r].status = "completed" /\ LogOf(r) = <<>>)

\* C13 amended: a run is created 'running'; when its automation has zero
\* steps, nothing is executed or logged, the next thing its task does is the
\* update to 'completed', and the task returns stepsExecuted = 0 with the run
\* 'completed', unless the store rejects that update: then the run stays
\* 'running' and the task raises.  Such a run is never 'failed'.
C13_ZeroSteps ==
  \A r \in RunIds :
    LET e == runs[r].event_id IN
      /\ hist[r].loaded = -1 => runs[r].status = "running"
      /\ hist[r].loaded = 0 =>
            /\ LogOf(r) = <<>> /\ hist[r].started = <<>>
            /\ runs[r].status \in {"running", "completed"}
            /\ ~hist[r].ended =>
                  (ra[e].runId = r /\ ra[e].pc = "complete_empty"
                   /\ runs[r].status = "running")
            /\ hist[r].ended =>
                  (runs[r].status = "completed" <=> hist[r].rejected = {})
            /\ (hist[r].ended /\ ra[e].runId = r) =>
                  /\ ra[e].stepsExecuted = 0
                  /\ ra[e].pc = (IF hist[r].rejected = {} THEN "returned" ELSE "threw")

\* the run of an automation without steps, completed, its task returning 0
C13_Witness ==
  \E r \in RunIds :
    /\ hist[r].loaded = 0 /\ hist[r].ended
    /\ runs[r].status = "completed" /\ LogOf(r) = <<>>
    /\ ra[runs[r].event_id].pc = "returned"
    /\ ra[runs[r].event_id].stepsExecuted = 0

\* --------------------------------------------------------------------- C14
\* the delay a Wait step is configured with, under either spelling of its keys
ConfiguredDelay(camel, snake) == IF camel # 0 THEN camel ELSE snake
ClaimedTotal(config) ==
  ConfiguredDelay(config.delayMinutes, config.delay_minutes) * 60
  + ConfiguredDelay(config.delayHours, config.delay_hours) * 3600
  + ConfiguredDelay(config.delayDays, config.delay_days) * 86400

C14_WitnessNoDelay ==
  \E r \in RunIds :
    /\ Len(hist[r].steps) = 2
    /\ hist[r].steps[1].stepType = "Wait"
    /\ ~hist[r].results[1].result.waited
    /\ hist[r].suspended = <<>>
    /\ hist[r].startedAt[2] = hist[r].startedAt[1]

\* --------------------------------------------------------------------- C15
\* a step the engine does not know: an unrecognized stepType, an Action with
\* an unknown actionType, a Condition with an unknown operator
KnownStepTypes == {"Trigger", "Wait", "Action", "Condition"}
KnownActionTypes == {"send_sms", "send_email", "create_task", "update_field", "webhook"}
KnownOperators == {"", "equals", "not_equals", "contains", "not_contains",
                   "greater_than", "less_than", "is_empty", "is_not_empty"}
UnknownStep(step) ==
  \/ step.stepType \notin KnownStepTypes
  \/ step.stepType = "Action" /\ step.actionType \notin KnownActionTypes
  \/ step.stepType = "Condition" /\ step.config.operator \notin KnownOperators

\* C15 as claimed: the execution of an unknown step never raises and yields
\* {skipped} (conditionPassed = false for a Condition); the step is never
\* logged 'failed', the run does not stop at it, and once the run's task is
\* over the step is logged 'completed'.
C15_AsClaimed ==
  \A r \in RunIds :
    \A i \in DOMAIN hist[r].steps :
      UnknownStep(hist[r].steps[i]) =>
        LET id == hist[r].steps[i].id
            out == hist[r].results[i]
            Mine(row) == row.step_id = id
            rows == SelectSeq(LogOf(r), Mine)
        IN /\ out.kind = "result"
           /\ out.result.tag \in {"skipped", "condition"}
           /\ ~out.result.conditionPassed
           /\ ~out.result.stopped
           /\ \A k \in DOMAIN rows : rows[k].status = "completed"
           /\ runs[r].status = "failed" => hist[r].raised # 0
           /\ hist[r].ended => Len(rows) = 1

\* --------------------------------------------------------------------- C16
NoDuplicates(seq) == \A i, j \in DOMAIN seq : seq[i] = seq[j] => i = j

C17_OneRunPerPair ==
  /\ \A r, q \in RunIds :
       (runs[r].automation_id = runs[q].automation_id
        /\ runs[r].event_id = runs[q].event_id) => r = q
  /\ \A e \in DOMAIN events :
       LET mine == { r \in RunIds : runs[r].event_id = e } IN
         /\ pe[e].pc \in {"load", "failed", "mark_none"} => mine = {}
         /\ Cardinality(mine) <= Len(pe[e].invoked)
         /\ \A r \in mine :
              \E i \in DOMAIN pe[e].invoked : pe[e].invoked[i] = runs[r].automation_id

\* the third attempt, after two rejected ones, ran two automations: two runs
C17_Witness ==
  \E e \in DOMAIN events :
    /\ pe[e].pc = "done" /\ pe[e].attempt = MaxAttempts
    /\ Cardinality({ r \in RunIds : runs[r].event_id = e }) = 2
    /\ \E r, q \in RunIds : runs[r].automation_id # runs[q].automation_id

\* --------------------------------------------------------------------- C18
\* the scenario: an sms.inbound event matched to an automation with the steps
\* [Condition(body contains STOP, stopOnFalse = false),
\*  Action(send_sms, to = {{from}}, body = "Goodbye")]
StopCondition ==
  [stepType |-> "Condition", actionType |-> "",
   config |-> [NoConfig EXCEPT !.field = "body", !.operator = "contains",
                               !.value = JsStr("STOP")]]
StopScenario(r, payload) ==
  /\ events[runs[r].event_id].event_type = "sms.inbound"
  /\ events[runs[r].event_id].payload = payload
  /\ hist[r].plan = <<StepRow(1, StopCondition), StepRow(2, Goodbye)>>
Returned(r) ==
  ra[runs[r].event_id].runId = r /\ ra[runs[r].event_id].pc = "returned"

\* C18 as claimed: in the scenario with payload {body: "STOP"}, once the run
\* has returned (the store accepted every write), both steps are logged
\* 'completed', the run is 'completed' and exactly one SMS was attempted.
C18_AsClaimed ==
  \A r \in RunIds :
    (StopScenario(r, [body |-> "STOP"]) /\ Returned(r)) =>
      /\ Len(LogOf(r)) = 2
      /\ \A i \in DOMAIN LogOf(r) : LogOf(r)[i].status = "completed"
      /\ runs[r].status = "completed"
      /\ hist[r].sms = 1

\* C18 amended: in the scenario with payload {body: "STOP"} the Condition
\* passes and the send_sms step yields {skipped}, because {{from}} resolves to
\* the empty string: no SMS is attempted, no identity resolved, no message
\* written, no step raises; when the run returns both steps are logged
\* 'completed' and the run is 'completed'.  With a payload that also carries
\* `from`, for an org with a messaging identity, the send_sms step attempts
\* exactly one SMS, to that number, with body "Goodbye".
C18_StopScenario ==
  \A r \in RunIds :
    /\ StopScenario(r, [body |-> "STOP"]) =>
         LET h == hist[r] IN
           /\ h.sms = 0 /\ h.lookups = 0 /\ h.msgs = 0 /\ h.raised = 0
           /\ Len(h.results) >= 1 =>
                 /\ h.results[1].kind = "result"
                 /\ h.results[1].result.conditionPassed
                 /\ ~h.results[1].result.stopped
           /\ Len(h.results) >= 2 =>
                 /\ h.results[2].kind = "result"
                 /\ h.results[2].result.tag = "skipped"
           /\ Returned(r) =>
                 /\ Len(LogOf(r)) = 2
                 /\ \A i \in DOMAIN LogOf(r) : LogOf(r)[i].status = "completed"
                 /\ runs[r].status = "completed"
                 /\ ra[runs[r].event_id].stepsExecuted = 2
    /\ (/\ StopScenario(r, [body |-> "STOP", from |-> "+15550100"])
        /\ pe[runs[r].event_id].orgSlug = "vector"
        /\ Len(hist[r].results) = 2) =>
         /\ hist[r].sms = 1
         /\ \E k \in DOMAIN outbox :
              /\ outbox[k].to = "+15550100" /\ outbox[k].body = "Goodbye"
              /\ outbox[k].messagingServiceSid = "MG-vector"

\* the scenario's run returned: two steps logged 'completed', no SMS attempted
C18_Witness ==
  \E r \in RunIds :
    /\ StopScenario(r, [body |-> "STOP"]) /\ Returned(r)
    /\ Len(LogOf(r)) = 2 /\ runs[r].status = "completed"
    /\ LogOf(r)[2].result.tag = "skipped"
    /\ hist[r].sms = 0

\* --------------------------------------------------------------------- C19
\* the context of run r, and a send_sms step's interpolated `to` and `body`
ContextOf(r) ==
  LET e == runs[r].event_id
  IN BuildContext(events[e].org_id, pe[e].orgSlug, events[e].entity_id,
                  events[e].payload)
SmsStep(step) == step.stepType = "Action" /\ step.actionType = "send_sms"
SmsComplete(r, step) ==
  /\ interpolate(step.config.to, ContextOf(r)) # ""
  /\ interpolate(step.config.body, ContextOf(r)) # ""
\* the org has no messaging identity configured
NoIdentity(orgSlug) ==
  orgSlug \notin DOMAIN ORG_MESSAGING_SERVICES \/ ORG_MESSAGING_SERVICES[orgSlug] = ""

\* C19 as claimed: a send_sms step with non-empty interpolated `to` and
\* `body`, for an org without a messaging identity, raises before any SMS is
\* handed to the transport; once the run's task is over (the store having
\* rejected nothing) the step is logged 'failed' and the run is 'failed'.
C19_AsClaimed ==
  \A r \in RunIds :
    \A i \in DOMAIN hist[r].steps :
      LET step == hist[r].steps[i]
          out == hist[r].results[i]
      IN (SmsStep(step) /\ SmsComplete(r, step)
          /\ NoIdentity(pe[runs[r].event_id].orgSlug)) =>
           /\ out.kind = "throw"
           /\ out.fx.sms = <<>>
           /\ hist[r].sms = 0
           /\ (hist[r].ended /\ hist[r].rejected = {}) =>
                 /\ Len(FailedRows(r)) = 1
                 /\ FailedRows(r)[1].step_id = step.id
                 /\ runs[r].status = "failed"

\* --------------------------------------------------------------------- C20
\* C20 as claimed: a send_sms step whose interpolated `to` or `body` is empty
\* yields {skipped} whatever the org: no messaging identity is resolved, the
\* transport is not called, no message record is written; the step is never
\* logged 'failed', the run does not fail because of it, and once the run's
\* task is over the step is logged 'completed'.
C20_AsClaimed ==
  \A r \in RunIds :
    \A i \in DOMAIN hist[r].steps :
      LET step == hist[r].steps[i]
          out == hist[r].results[i]
          Mine(row) == row.step_id = step.id
          rows == SelectSeq(LogOf(r), Mine)
      IN (SmsStep(step) /\ ~SmsComplete(r, step)) =>
           /\ out.kind = "result" /\ out.result.tag = "skipped"
           /\ out.fx = NoFx
           /\ ~out.result.stopped
           /\ \A k \in DOMAIN rows : rows[k].status = "completed"
           /\ runs[r].status # "failed"
           /\ hist[r].ended => Len(rows) = 1

\* ------------------------------------------------------------------- C21
\* the executions of run r: the step and what its execution produced
Execution(r, i) == [step |-> hist[r].steps[i], out |-> hist[r].results[i]]
\* an execution of a send_sms step that returned {sent, sid, status}
SmsSent(x) ==
  /\ x.step.stepType = "Action" /\ x.step.actionType = "send_sms"
  /\ x.out.kind = "result" /\ x.out.result.tag = "sent"
SentExecutions(r) == { i \in DOMAIN hist[r].results : SmsSent(Execution(r, i)) }
\* the message rows in the store
StoredMessages == { messages[i] : i \in DOMAIN messages }

\* C21 as claimed: whenever a send_sms step returned {sent, sid, status}, the
\* SMS was handed to the transport once and exactly one outbound message record
\* for it is in the store (a failed message write fails the step instead).
C21_AsClaimed ==
  \A r \in RunIds :
    /\ hist[r].msgs = Cardinality(SentExecutions(r))
    /\ \A i \in SentExecutions(r) :
         LET x == Execution(r, i) IN
           /\ Len(x.out.fx.sms) = 1
           /\ \E m \in StoredMessages :
                /\ m.direction = "outbound"
                /\ m.to_number = x.out.fx.sms[1].to
                /\ m.body = x.out.fx.sms[1].body

\* --------------------------------------------------------------------- C22
\* an execution in which the transport refused the send: Twilio rejected the
\* SMS, or the email route answered send_email with a non-2xx status
TransportRefused(x) ==
  /\ x.out.kind = "throw"
  /\ \/ x.step.actionType = "send_sms" /\ x.out.error = TwilioError
     \/ x.step.actionType = "send_email" /\ x.out.error = SendEmailError
\* the calls execution x made to its transport
TransportCalls(x) ==
  IF x.step.actionType = "send_sms" THEN Len(x.out.fx.sms) ELSE Len(x.out.fx.fetch)
Refusals(r) ==
  { i \in DOMAIN hist[r].results : TransportRefused(Execution(r, i)) }

\* C22 as claimed: once the transport refused a send and the run's task is
\* over, the step is logged 'failed' and the run is set to 'failed'.
C22_AsClaimed ==
  \A r \in RunIds :
    (Refusals(r) # {} /\ hist[r].ended) =>
      /\ FailedRows(r) # <<>>
      /\ runs[r].status = "failed"

\* C22 amended: a send_email answered with a non-2xx status raises, and a
\* refused send raises out of the action after exactly one call to the
\* transport; the step is the last one the run executes and no step is
\* executed twice (no retry by the engine), the run never becomes 'completed'
\* and its task ends by raising; the step is logged 'failed' and the run is set
\* to 'failed', both with the transport's error, whenever the store accepts
\* the failed-step insert and the run update (otherwise the run stays
\* 'running').
C22_TransportFatal ==
  \A r \in RunIds :
    LET h == hist[r]
        e == runs[r].event_id
    IN /\ \A i \in DOMAIN h.results :
            LET x == Execution(r, i) IN
              (x.step.actionType = "send_email" /\ x.out.fx.fetch # <<>>
               /\ x.out.fx.fetch[1].answer \in {400, 404, 500}) =>
                 TransportRefused(x)
       /\ \A i \in Refusals(r) :
         LET x == Execution(r, i) IN
           /\ TransportCalls(x) = 1
           /\ i = Len(h.results)
           /\ NoDuplicates(h.started)
           /\ h.sms + Len(h.fetches) <= Len(h.started)
           /\ runs[r].status # "completed"
           /\ (h.ended /\ ra[e].runId = r) => ra[e].pc = "threw"
           /\ ("log_failed" \notin h.rejected /\ ra[e].runId = r
               /\ ra[e].pc \in {"update_failed", "threw"}) =>
                /\ Len(FailedRows(r)) = 1
                /\ Last(LogOf(r)) = Last(FailedRows(r))
                /\ Last(LogOf(r)).step_id = x.step.id
                /\ Last(LogOf(r)).error_message = x.out.error
           /\ (h.ended /\ h.rejected \cap {"log_failed", "update_failed"} = {}) =>
                /\ runs[r].status = "failed" /\ runs[r].error = x.out.error
           /\ (h.ended /\ h.rejected \cap {"log_failed", "update_failed"} # {}) =>
                runs[r].status = "running"

\* an email was sent by the first step, the transport refused the SMS of the
\* second: the step is logged 'failed' and the run is failed with the error
C22_Witness ==
  \E r \in RunIds :
    /\ hist[r].ended
    /\ Refusals(r) = {2}
    /\ hist[r].steps[1].actionType = "send_email"
    /\ hist[r].results[1].kind = "result"
    /\ Len(LogOf(r)) = 2
    /\ Last(LogOf(r)).status = "failed"
    /\ runs[r].status = "failed" /\ runs[r].error = TwilioError
\* the email route answered a send_email with a non-2xx status
C22_WitnessEmail ==
  \E r \in RunIds :
    /\ hist[r].ended
    /\ \E i \in Refusals(r) : hist[r].steps[i].actionType = "send_email"
    /\ runs[r].status = "failed" /\ runs[r].error = SendEmailError

\* --------------------------------------------------------------------- C23
WebhookStep(step) == step.stepType = "Action" /\ step.actionType = "webhook"
\* the executions of webhook steps with a non-empty url in run r that the
\* remote end answered
Posts(r) ==
  { i \in DOMAIN hist[r].results :
      /\ WebhookStep(hist[r].steps[i]) /\ hist[r].steps[i].config.url # ""
      /\ hist[r].results[i].fx.fetch # <<>>
      /\ hist[r].results[i].fx.fetch[1].answer # NoAnswer }
\* those the remote end answered with a 4xx or 5xx status
RemoteFailures(r) ==
  { i \in Posts(r) : hist[r].results[i].fx.fetch[1].answer \in {404, 500} }

\* C23 as claimed: a webhook with a non-empty url whose request was answered
\* made exactly one request carrying the context and returned {sent, status},
\* and once the run's task is over a step answered with 4xx or 5xx is logged
\* 'completed' and the run is not failed unless a step raised; with an empty
\* url the step returned {skipped} without a request.
C23_AsClaimed ==
  \A r \in RunIds :
    /\ \A i \in Posts(r) :
         LET out == hist[r].results[i] IN
           /\ Len(out.fx.fetch) = 1
           /\ out.fx.fetch[1].url = hist[r].steps[i].config.url
           /\ out.fx.fetch[1].body = ContextOf(r)
           /\ out.kind = "result" /\ out.result.tag = "sent"
           /\ out.result.status = out.fx.fetch[1].answer
    /\ \A i \in RemoteFailures(r) :
         hist[r].ended =>
           /\ \E row \in { LogOf(r)[k] : k \in DOMAIN LogOf(r) } :
                /\ row.step_id = hist[r].steps[i].id
                /\ row.status = "completed"
           /\ hist[r].raised = 0 => runs[r].status # "failed"
    /\ \A i \in DOMAIN hist[r].results :
         (WebhookStep(hist[r].steps[i]) /\ hist[r].steps[i].config.url = "") =>
           /\ hist[r].results[i].kind = "result"
           /\ hist[r].results[i].result.tag = "skipped"
           /\ hist[r].results[i].fx.fetch = <<>>

\* --------------------------------------------------------------------- C24
\* C24: at every point of a run's execution before its terminal write the
\* stored status is 'running' with no error (so a crash there leaves the run
\* 'running'); the status changes with the single terminal write only, and
\* the step log holds the records of the steps executed so far.
C24_RunningUntilTerminalWrite ==
  \A r \in RunIds :
    /\ hist[r].terminalWrites <= 1
    /\ hist[r].terminalWrites = 0 =>
         (runs[r].status = "running" /\ runs[r].error = "")
    /\ hist[r].terminalWrites = 1 => runs[r].status \in {"completed", "failed"}
    /\ \A k \in DOMAIN LogOf(r) :
         \E i \in DOMAIN hist[r].started : LogOf(r)[k].step_id = hist[r].started[i]

\* partial completion: the first step is logged 'completed', the run's task is
\* still at work and the run is 'running'
C24_Witness ==
  \E r \in RunIds :
    /\ ~hist[r].ended
    /\ hist[r].terminalWrites = 0
    /\ Len(LogOf(r)) = 1 /\ LogOf(r)[1].status = "completed"
    /\ runs[r].status = "running"
\* the failed step is logged but the run's status is not yet updated
C24_WitnessFailed ==
  \E r \in RunIds :
    /\ ra[runs[r].event_id].pc = "update_failed"
    /\ Len(FailedRows(r)) = 1
    /\ runs[r].status = "running"

\* --------------------------------------------------------------------- C26
IsPrefix(old, new) == Len(old) <= Len(new) /\ SubSeq(new, 1, Len(old)) = old

\* C26: every step moves the step log, the SMS handed to the transport, the
\* message records, the HTTP requests made and the task records to an
\* extension of what they were: an inserted step-log record is never updated
\* or deleted, and a failure undoes no side effect of an earlier step.
C26_AppendOnly ==
  [][/\ IsPrefix(stepLog, stepLog')
     /\ IsPrefix(outbox, outbox')
     /\ IsPrefix(messages, messages')
     /\ IsPrefix(fetches, fetches')
     /\ IsPrefix(tasks, tasks')]_vars

\* the first step of a run sent an SMS and is logged 'completed', the second
\* step failed and the run is 'failed': the record and the SMS are still there
C26_Witness ==
  \E r \in RunIds :
    /\ hist[r].ended /\ runs[r].status = "failed"
    /\ Len(LogOf(r)) = 2
    /\ LogOf(r)[1].status = "completed" /\ LogOf(r)[1].action_type = "send_sms"
    /\ LogOf(r)[2].status = "failed"
    /\ Len(outbox) = 1 /\ Len(messages) = 1
\* a task created by the first step stays after the second step failed
C26_WitnessTask ==
  \E r \in RunIds :
    /\ hist[r].ended /\ runs[r].status = "failed"
    /\ LogOf(r)[1].status = "completed" /\ LogOf(r)[1].action_type = "create_task"
    /\ Len(tasks) = 1

\* --------------------------------------------------------------------- C30
\* the executions of create_task steps of run r whose dueInDays is a number
\* or is not configured
TaskExecutions(r) ==
  { i \in DOMAIN hist[r].results :
      /\ hist[r].steps[i].stepType = "Action"
      /\ hist[r].steps[i].actionType = "create_task"
      /\ hist[r].steps[i].config.dueInDays.t \in {"undefined", "number"} }
\* the days the claim adds to the current date
ClaimedDueInDays(config) ==
  IF config.dueInDays.t = "undefined" THEN 1 ELSE config.dueInDays.n

\* C30 as claimed: a create_task step that returned inserted exactly one task
\* record, 'pending', for the run's entity, due on the day of the execution
\* plus the configured dueInDays (0 included; 1 when not configured); a step
\* that failed on a store error inserted none.
C30_AsClaimed ==
  \A r \in RunIds : \A i \in TaskExecutions(r) :
    LET out == hist[r].results[i]
        config == hist[r].steps[i].config
    IN /\ out.kind = "result" =>
            /\ Len(out.fx.task) = 1
            /\ \E k \in DOMAIN tasks : tasks[k] = out.fx.task[1]
            /\ out.fx.task[1].status = "pending"
            /\ out.fx.task[1].entity_id = JsStr(RunEntityId(runs[r].event_id))
            /\ out.fx.task[1].due_date =
                 DayOf(hist[r].startedAt[i]) + ClaimedDueInDays(config)
       /\ out.kind = "throw" => out.fx.task = <<>>

\* --------------------------------------------------------------------- C25
\* the task of run r, and whether it is at work on it
TaskOf(r) == runs[r].event_id
AtWork(r) == ra[TaskOf(r)].runId = r /\ ra'[TaskOf(r)] # ra[TaskOf(r)]
\* the status run r must end with, from its own steps alone
OwnOutcome(r) == IF hist[r].raised # 0 THEN "failed" ELSE "completed"
\* in every state: tasks at work hold different run records; a task's context
\* is built from its own event; every step-log record of run r is for a step
\* run r executed; and a run that is over, the store having accepted all its
\* writes, has the status its own steps give it
C25_OwnRecords ==
  /\ \A e1, e2 \in EventIds :
       (ra[e1].runId # 0 /\ ra[e1].runId = ra[e2].runId) => e1 = e2
  /\ \A r \in RunIds :
       /\ (ra[TaskOf(r)].runId = r /\ hist[r].started # <<>>) =>
            ra[TaskOf(r)].context = ContextOf(r)
       /\ \A k \in DOMAIN LogOf(r) :
            \E i \in DOMAIN hist[r].started :
              /\ LogOf(r)[k].step_id = hist[r].started[i]
              /\ LogOf(r)[k].status = "completed" =>
                   LogOf(r)[k].result = hist[r].results[i].result
       /\ (hist[r].ended /\ hist[r].rejected = {}) => runs[r].status = OwnOutcome(r)
\* in every step: a run record changes, and a step-log record is added for a
\* run, only by a step of the task at work on that run, and the step log of
\* every other run is left as it is
C25_OwnWrites ==
  /\ \A r \in RunIds :
       runs'[r] # runs[r] => AtWork(r)
  /\ \A r \in RunIds :
       LogOf(r)' # LogOf(r) => AtWork(r)
  /\ \A e \in EventIds :
       ra'[e] # ra[e] => \A d \in EventIds \ {e} : ra'[d] = ra[d]

\* C25: concurrent runs are isolated: each run has its own record and its own
\* context, every step-log record carries the run_id of the run that executed
\* the step, and a run's status and step log change only by its own task, so
\* that its terminal status follows from its own steps.
C25_Isolated == []C25_OwnRecords /\ [][C25_OwnWrites]_vars

\* two runs at work at the same time: one has raised in its send_sms step and
\* is not yet marked, the other has logged its first step and goes on
C25_Witness ==
  \E r, q \in RunIds :
    /\ r # q
    /\ ~hist[r].ended /\ ~hist[q].ended
    /\ hist[r].raised # 0 /\ runs[r].status = "running"
    /\ hist[q].raised = 0 /\ Len(LogOf(q)) = 1 /\ ra[TaskOf(q)].pc = "exec"
\* both are over, for the same automation: one failed in its second step,
\* the other was stopped by its condition and completed
C25_WitnessOver ==
  \E r, q \in RunIds :
    /\ hist[r].ended /\ hist[q].ended
    /\ runs[r].automation_id = runs[q].automation_id
    /\ runs[r].status = "failed" /\ runs[q].status = "completed"
    /\ Len(LogOf(r)) = 2 /\ Len(LogOf(q)) = 1

\* --------------------------------------------------------------------- C27
\* the router task of event e has been triggered
Routed(e) == pe[e].pc # "idle"
\* the handler answered with an error
Refused == api.pc = "done" /\ api.status \in {400, 405, 500}

\* C27: the routing task is triggered only for an event whose record is
\* stored; a request refused with an error (a failed insert, a missing orgId,
\* eventType or entityType) has triggered nothing, and one missing a required
\* field has inserted nothing; a POST answered with 200 returns the identifier
\* of the record it inserted from the request; and the answer is given as
\* soon as the trigger request is over, whatever the tasks are doing.
C27_StoreThenDispatch ==
  /\ \A e \in EventIds : Routed(e) => e \in DOMAIN events
  /\ api.triggered =>
       (api.eventId \in DOMAIN events /\ Routed(api.eventId))
  /\ Refused => (~api.triggered /\ \A e \in EventIds : ~Routed(e))
  /\ (api.pc # "idle" /\ MissingRequired(api.req)) => events = <<>>
  /\ (api.pc = "done" /\ api.status = 500) => events = <<>>
  /\ (api.pc = "done" /\ api.status = 200 /\ api.req.method = "POST") =>
       /\ api.eventId \in DOMAIN events
       /\ events[api.eventId].org_id = api.req.orgId
       /\ events[api.eventId].event_type = api.req.eventType
       /\ events[api.eventId].payload = api.req.payload
  /\ api.pc = "respond" => ENABLED Api_Respond

\* the handler has answered 200 with the event's identifier while the run of
\* the matched automation is still 'running'
C27_Witness ==
  /\ api.pc = "done" /\ api.status = 200 /\ api.eventId = 1
  /\ \E r \in RunIds :
       runs[r].event_id = 1 /\ runs[r].status = "running" /\ ~hist[r].ended
\* the insert failed: error 500, no record, nothing triggered
C27_WitnessInsertFailed ==
  /\ api.pc = "done" /\ api.status = 500 /\ api.serviceKey
  /\ api.req = FullRequest /\ events = <<>>

\* --------------------------------------------------------------------- C28
\* a call of the evaluator that has returned, with the given operator
Evaluated(op) ==
  probe.fn = "evaluateCondition" /\ probe.done /\ probe.config.operator = op
\* the value the condition is about
Actual == getNestedValue(probe.context, probe.config.field)
\* the same call with another operator
With(op) == evaluateCondition([probe.config EXCEPT !.operator = op], probe.context)
\* falsy or nullish
Falsy(v) == v \in {JsUndef, JsNull, JsStr(""), JsNum(0)}
BothNumbers == Actual.t = "number" /\ probe.config.value.t = "number"
CountFive == [count |-> JsNum(5)]

\* C28: the evaluator returns a boolean that agrees with the reference table:
\* equals compares the string forms (the default operator), contains tests
\* for a substring, greater_than and less_than compare as numbers (strictly,
\* and never hold when a side is not a number), is_empty holds exactly for
\* falsy or nullish values; not_equals, not_contains and is_not_empty are the
\* negations; an unknown operator gives false; and with {count: 5}:
\* greater_than 3, equals 5 hold and is_empty does not.
C28_AgreesWithTable ==
  /\ (probe.fn = "evaluateCondition" /\ probe.done) => probe.bool \in BOOLEAN
  /\ Evaluated("equals") =>
       (probe.bool <=> String(Actual) = String(probe.config.value))
  /\ Evaluated("") => (probe.bool <=> With("equals"))
  /\ Evaluated("not_equals") => (probe.bool <=> ~With("equals"))
  /\ Evaluated("contains") =>
       (probe.bool <=> Includes(String(Actual), String(probe.config.value)))
  /\ Evaluated("not_contains") => (probe.bool <=> ~With("contains"))
  /\ (Evaluated("greater_than") /\ BothNumbers) =>
       (probe.bool <=> Actual.n > probe.config.value.n)
  /\ (Evaluated("less_than") /\ BothNumbers) =>
       (probe.bool <=> Actual.n < probe.config.value.n)
  /\ (Evaluated("greater_than") \/ Evaluated("less_than")) =>
       /\ (ToNumber(Actual).nan \/ ToNumber(probe.config.value).nan) => ~probe.bool
       /\ ~(With("greater_than") /\ With("less_than"))
       /\ (probe.bool /\ Actual.t = "string") =>
            \E k \in NumRange : NumStr(k) = Actual.s \/ Actual.s = ""
  /\ Evaluated("is_empty") => (probe.bool <=> Falsy(Actual))
  /\ Evaluated("is_not_empty") => (probe.bool <=> ~With("is_empty"))
  /\ Evaluated("matches") => ~probe.bool
  /\ (probe.context = CountFive /\ probe.config.field = "count") =>
       /\ (Evaluated("greater_than") /\ probe.config.value = JsNum(3)) => probe.bool
       /\ (Evaluated("equals") /\ probe.config.value = JsNum(5)) => probe.bool
       /\ Evaluated("is_empty") => ~probe.bool

\* the rows of the table: {count: 5} is greater than 3
C28_Witness ==
  /\ Evaluated("greater_than") /\ probe.context = CountFive
  /\ probe.config.field = "count" /\ probe.config.value = JsNum(3)
  /\ probe.bool
\* a numeric comparison of a string with a number: "5" is less than 10
C28_WitnessCoercion ==
  /\ Evaluated("less_than") /\ probe.context = [count |-> JsStr("5")]
  /\ probe.config.field = "count" /\ probe.config.value = JsNum(10)
  /\ probe.bool

\* --------------------------------------------------------------------- C29
\* the reference resolution: the value under the keys of the path, each one a
\* property of the object reached so far; unresolved (undefined) otherwise
RECURSIVE OwnValue(_, _)
OwnValue(v, keys) ==
  IF keys = <<>> THEN v
  ELSE IF v.t = "object" /\ Head(keys) \in DOMAIN v.o
  THEN OwnValue(v.o[Head(keys)], Tail(keys))
  ELSE JsUndef
Resolved(context, path) == OwnValue(JsObj(context), SplitPath(path))
\* the reference interpolation of a scanned template, in one pass
RECURSIVE Expanded(_, _)
Expanded(parts, context) ==
  IF parts = <<>> THEN ""
  ELSE LET v == Resolved(context, Head(parts).path)
       IN (IF Head(parts).path = "" THEN Head(parts).lit
           ELSE IF v.t \in {"undefined", "null"} THEN "" ELSE String(v))
          \o Expanded(Tail(parts), context)
HasPlaceholder(text) == \E i \in DOMAIN Scan(text) : Scan(text)[i].path # ""

\* C29 as claimed: a path with a key missing along it resolves to nothing, and
\* interpolate gives the template with every placeholder replaced by the
\* string form of the value its path resolves to, or by '' when it resolves
\* to nothing, in a single pass (a second pass changes nothing when the
\* result holds no placeholder).
C29_AsClaimed ==
  /\ (probe.fn = "getNestedValue" /\ probe.done) =>
       probe.value = Resolved(probe.context, probe.path)
  /\ (probe.fn = "interpolate" /\ probe.done) =>
       /\ probe.text = Expanded(Scan(probe.template), probe.context)
       /\ ~HasPlaceholder(probe.text) => probe.again = probe.text
       /\ (probe.template = "{{a.b}}"
           /\ probe.context = [a |-> JsObj([b |-> JsStr("x")])]) => probe.text = "x"
       /\ (probe.template = "{{missing}}" /\ probe.context = NoProps) =>
            probe.text = ""

\* --------------------------------------------------------------------- C31
\* the 'completed' records of run r
CompletedRows(r) ==
  LET Completed(row) == row.status = "completed" IN SelectSeq(LogOf(r), Completed)
\* a Condition step that halts the run in the given context
Halts(step, context) ==
  /\ step.stepType = "Condition"
  /\ step.config.stopOnFalse
  /\ ~evaluateCondition(step.config, context)
\* the number of steps of a plan up to and including the first halting
\* Condition step, or all of them
RECURSIVE StepsUntilHalt(_, _)
StepsUntilHalt(plan, context) ==
  IF plan = <<>> THEN 0
  ELSE IF Halts(Head(plan), context) THEN 1
  ELSE 1 + StepsUntilHalt(Tail(plan), context)

\* C31: when the run task has returned, the stepsExecuted it returns is the
\* number of 'completed' step-log records of the run, which is the number of
\* steps up to and including the halting Condition step (all the steps when
\* none halts).
C31_StepsExecuted ==
  \A e \in EventIds :
    (ra[e].pc = "returned" /\ ra[e].runId # 0) =>
      LET r == ra[e].runId IN
        /\ ra[e].stepsExecuted = Len(CompletedRows(r))
        /\ ra[e].stepsExecuted = StepsUntilHalt(hist[r].plan, ContextOf(r))
        /\ \A k \in DOMAIN CompletedRows(r) :
             CompletedRows(r)[k].step_id = hist[r].plan[k].id

\* a run of two steps halted by its first step, a Condition: it returned 1
C31_Witness ==
  \E e \in EventIds :
    /\ ra[e].pc = "returned" /\ ra[e].runId # 0
    /\ Len(hist[ra[e].runId].plan) = 2
    /\ Halts(hist[ra[e].runId].plan[1], ContextOf(ra[e].runId))
    /\ ra[e].stepsExecuted = 1
\* a run of two steps with no halt returned 2
C31_WitnessAll ==
  \E e \in EventIds :
    /\ ra[e].pc = "returned" /\ ra[e].runId # 0
    /\ Len(hist[ra[e].runId].plan) = 2
    /\ ra[e].stepsExecuted = 2

\* --------------------------------------------------------------------- C32
\* C32: in every state, a run whose status is 'completed' has no 'failed'
\* step-log record, and a run whose status is 'failed' has exactly one, the
\* last record of its log.
C32_StatusMatchesLog ==
  \A r \in RunIds :
    /\ runs[r].status = "completed" => FailedRows(r) = <<>>
    /\ runs[r].status = "failed" =>
         /\ Len(FailedRows(r)) = 1
         /\ Last(LogOf(r)).status = "failed"

\* a failed run whose log holds a 'completed' record and then the 'failed' one
C32_Witness ==
  \E r \in RunIds :
    /\ runs[r].status = "failed"
    /\ Len(LogOf(r)) = 2
    /\ LogOf(r)[1].status = "completed" /\ LogOf(r)[2].status = "failed"
\* a completed run with two records, none 'failed'
C32_WitnessCompleted ==
  \E r \in RunIds :
    runs[r].status = "completed" /\ Len(LogOf(r)) = 2 /\ FailedRows(r) = <<>>

\* --------------------------------------------------------------------- C33
TerminalStatuses == {"completed", "failed"}

\* C33 as claimed: once the run task of a created run has ended (returned or
\* raised), the run has a terminal status, also when a store operation after
\* the creation returned an error.
C33_AsClaimed ==
  \A r \in RunIds : hist[r].ended => runs[r].status \in TerminalStatuses


\* the store operations of a run whose rejection leaves the run without a
\* terminal write: the step load (line 136, outside every try), the insert
\* and the update of the catch block (lines 218-237) and the closing updates
\* (lines 139-143, 243-250)
Blocking(r) == hist[r].rejected \ {"log_completed"}

\* C33: once the run task of a created run has ended, the run has a terminal
\* status exactly when the store accepted the step load, the writes of the
\* catch block and the closing update; otherwise the run is left 'running'.
\* A rejected 'completed' log insert alone still ends in 'failed'.
C33_TerminalUnlessRejected ==
  \A r \in RunIds :
    hist[r].ended =>
      /\ (runs[r].status \in TerminalStatuses) <=> (Blocking(r) = {})
      /\ runs[r].status \notin TerminalStatuses => runs[r].status = "running"
      /\ (hist[r].rejected = {"log_completed"}) => runs[r].status = "failed"

\* a run left 'running' after its task ended on a rejected step load
C33_Witness ==
  \E r \in RunIds :
    /\ hist[r].ended
    /\ hist[r].rejected = {"load_steps"}
    /\ runs[r].status = "running"

\* a run that ended 'failed' although the 'completed' log insert was rejected
C33_WitnessLogRejected ==
  \E r \in RunIds :
    /\ hist[r].ended
    /\ hist[r].rejected = {"log_completed"}
    /\ runs[r].status = "failed"


\* ------------------------------------------------------------------ C34
\* the runs created for event e
RunsOf(e) == { r \in RunIds : runs[r].event_id = e }
Processed(e) == events[e].processed_at > 0

\* C34 as claimed: in every state where an event's processedAt is set, no
\* run of that event is still in 'running' status.
C34_AsClaimed ==
  \A e \in DOMAIN events :
    Processed(e) => \A r \in RunsOf(e) : runs[r].status # "running"

\* C34: in every state where an event's processedAt is set, the run task of
\* every run of that event has ended, and a run of that event is still
\* 'running' only when the store rejected one of its operations.
C34_ProcessedAfterRunsEnded ==
  \A e \in DOMAIN events :
    Processed(e) =>
      \A r \in RunsOf(e) :
        /\ hist[r].ended
        /\ runs[r].status = "running" => Blocking(r) # {}

\* a processed event with a run left 'running' by a rejected store operation
C34_Witness ==
  \E e \in DOMAIN events :
    /\ Processed(e)
    /\ \E r \in RunsOf(e) : hist[r].ended /\ runs[r].status = "running"

\* a processed event whose runs all ended with a terminal status
C34_WitnessTerminal ==
  \E e \in DOMAIN events :
    /\ Processed(e)
    /\ RunsOf(e) # {}
    /\ \A r \in RunsOf(e) : hist[r].ended /\ runs[r].status \in TerminalStatuses


\* ------------------------------------------------------------------ C35
\* the records the steps of run r wrote, and its update requests
MessagesOf(r) ==
  { hist[r].results[i].fx.message[1] :
      i \in { j \in DOMAIN hist[r].results : hist[r].results[j].fx.message # <<>> } }
TasksOf(r) ==
  { hist[r].results[i].fx.task[1] :
      i \in { j \in DOMAIN hist[r].results : hist[r].results[j].fx.task # <<>> } }
UpdatesOf(r) ==
  { hist[r].results[i].fx.update[1] :
      i \in { j \in DOMAIN hist[r].results : hist[r].results[j].fx.update # <<>> } }

\* C35 as claimed: every message and every task a run writes carries the
\* org_id of the run's own organisation, and update_field updates the record
\* identified by the run's own entityId, for every event payload, including
\* one with keys named orgId or entityId.
C35_AsClaimed ==
  \A r \in RunIds :
    LET e == runs[r].event_id IN
      /\ \A m \in MessagesOf(r) : m.org_id = JsStr(runs[r].org_id)
      /\ \A t \in TasksOf(r) :
           t.org_id = JsStr(runs[r].org_id) /\ t.entity_id = JsStr(events[e].entity_id)
      /\ \A u \in UpdatesOf(r) : u.id = JsStr(events[e].entity_id)


\* ------------------------------------------------------------------ C36
\* the runs whose context has been built and whose task is still at work
WithContext(r) == ra[TaskOf(r)].runId = r /\ hist[r].loaded > 0

AnsweredOk ==
  api.pc = "done" /\ api.status = 200 /\ api.eventId \in DOMAIN events
\* the routing task gave up: the store rejected its query at every attempt
GaveUp(e) == pe[e].pc = "failed"

\* C37 as claimed: under fair scheduling, every event that ingestion stored
\* and answered with ok eventually has its processedAt set, also when the
\* trigger call failed or no executor key is configured.  (A routing task
\* whose every attempt was ended by a store rejection is left aside.)
C37_AsClaimed ==
  AnsweredOk ~> (/\ api.eventId \in DOMAIN events
                 /\ Processed(api.eventId) \/ GaveUp(api.eventId))


\* ------------------------------------------------------------------ C38
\* the links of quote q that are not revoked
ActiveLinks(q) ==
  { k \in DOMAIN share.links :
      share.links[k].quote_id = q /\ ~share.links[k].revoked }

\* C38 as claimed: after any sequence of share-link creations for a quote,
\* two concurrent creations included, at most one non-revoked share link
\* exists for that quote.
C38_AsClaimed ==
  \A q \in Quotes : Cardinality(ActiveLinks(q)) <= 1


\* ------------------------------------------------------------------ C39
RECURSIVE Sum(_)
Sum(seq) == IF seq = <<>> THEN 0 ELSE Head(seq) + Sum(Tail(seq))
\* syncOpportunities has returned its count, or an error has left it
SyncOver == sync.pc \in {"done", "threw"}

\* C39 as claimed: syncOpportunities terminates for every pipeline content,
\* also when a pipeline's endpoint returns 100 or more opportunities, and no
\* opportunity is counted more than once.
C39_AsClaimed ==
  /\ [](sync.count <= Sum(sync.content))
  /\ (sync.pc # "idle") ~> SyncOver
=============================================================================
